---- MODULE Spec2Model ----
(***************************************************************************)
(* Model of the VPA external recommender (vertical-pod-autoscaler/pkg/     *)
(* recommender-external): the ExternalRecommendationsState, its feeder,    *)
(* the pod resource recommender, the post-processor chain built by main    *)
(* and the RunOnce loop.                                                   *)
(*                                                                         *)
(* Units: cpu amounts are milli-cores, memory amounts are bytes, times are *)
(* counted in units of 30 minutes since the Unix epoch (time.Unix(0,0) is  *)
(* 0).                                                                     *)
(***************************************************************************)
EXTENDS Integers, Sequences, FiniteSets, TLC

(***************************************************************************)
(* Bounds of the model.                                                    *)
(***************************************************************************)
\* the wall clock is not advanced past MaxTime
MaxTime == 6
\* the largest advance of the wall clock between two operations
MaxTick == 3
\* the wall clock when the recommender starts
StartTime == 2
\* the recommender loop is followed until the wall clock reads LoopMaxTime
LoopMaxTime == 3

(***************************************************************************)
(* Program constants.                                                      *)
(***************************************************************************)
\* time.Hour * 1, in units of 30 minutes
ObsoleteRecommendationThreshold == 2
\* 1 * time.Hour, in units of 30 minutes
AggregateContainerStateGCInterval == 2
\* default of the pod-recommendation-min-cpu-millicores flag
PodMinCPUMillicores == 25
\* value of the pod-recommendation-min-memory-mb flag
PodMinMemoryMb == 50

VpaIds == {"v1", "v2"}
ContainerNames == {"c1", "c2"}
\* container names in lexicographic order
ContainerOrder == <<"c1", "c2">>
ResourceCPU == "cpu"
ResourceMemory == "memory"
ResourceNames == {ResourceCPU, ResourceMemory}
\* SupportedResources of the annotation parser
SupportedResources == <<ResourceCPU, ResourceMemory>>

EmptyMap == [x \in {} |-> 0]

MapSet(f, k, v) == [x \in (DOMAIN f) \cup {k} |-> IF x = k THEN v ELSE f[x]]

MapDel(f, k) == [x \in (DOMAIN f) \ {k} |-> f[x]]

Max(a, b) == IF a >= b THEN a ELSE b

Min(a, b) == IF a <= b THEN a ELSE b

(***************************************************************************)
(* model.ExternalRecommendationsState                                      *)
(***************************************************************************)
NewVpaRecommendationState(id, created) ==
    [ID |-> id, Containers |-> EmptyMap, Created |-> created]

NewContainerRecommendationState(recommendation, t) ==
    [RawRecommendation |-> recommendation, time |-> t]

\* Vpas: the map s.Vpas; the result is the map after the call
DeleteVpa(Vpas, vpaID) ==
    IF vpaID \notin DOMAIN Vpas THEN Vpas ELSE MapDel(Vpas, vpaID)

\* Variant of AddOrUpdateVpa that removes a VPA it finds instead of
\* replacing it: C9 tells it from AddOrUpdateVpa.
AddOrUpdateVpaToggling(Vpas, vpa) ==
    IF vpa.ID \in DOMAIN Vpas
    THEN DeleteVpa(Vpas, vpa.ID)
    ELSE MapSet(Vpas, vpa.ID, NewVpaRecommendationState(vpa.ID, vpa.Created))

\* vpaExists is reset to false whenever the VPA was found, so the entry is
\* always replaced by a fresh VpaRecommendationState
AddOrUpdateVpa(Vpas, vpa) ==
    LET vpaExists0 == vpa.ID \in DOMAIN Vpas
        afterDelete == IF vpaExists0 /\ Vpas[vpa.ID].Created # vpa.Created
                       THEN DeleteVpa(Vpas, vpa.ID)
                       ELSE Vpas
        vpaExists == IF vpaExists0 THEN FALSE ELSE vpaExists0
    IN IF ~vpaExists
       THEN MapSet(afterDelete, vpa.ID, NewVpaRecommendationState(vpa.ID, vpa.Created))
       ELSE afterDelete

AddContainerRecommendation(Vpas, vpaId, containerName, recommendation, t) ==
    IF vpaId \notin DOMAIN Vpas
    THEN Vpas
    ELSE LET vpa == Vpas[vpaId]
             container ==
                 IF containerName \notin DOMAIN vpa.Containers
                 THEN NewContainerRecommendationState(recommendation, t)
                 ELSE [vpa.Containers[containerName] EXCEPT
                          !.RawRecommendation = recommendation, !.time = t]
         IN MapSet(Vpas, vpaId,
                   [vpa EXCEPT !.Containers = MapSet(vpa.Containers, containerName, container)])

\* the body of GarbageCollect's loop for one VPA
GarbageCollectVpa(Vpas, vpaId, t) ==
    LET vpaState == Vpas[vpaId]
        kept == {c \in DOMAIN vpaState.Containers :
                    ~(t - vpaState.Containers[c].time > ObsoleteRecommendationThreshold)}
        swept == [vpaState EXCEPT !.Containers = [c \in kept |-> vpaState.Containers[c]]]
        Vpas1 == MapSet(Vpas, vpaId, swept)
    IN IF t - vpaState.Created < ObsoleteRecommendationThreshold
       THEN Vpas1
       ELSE IF Cardinality(DOMAIN swept.Containers) = 0
            THEN DeleteVpa(Vpas1, vpaId)
            ELSE Vpas1

RECURSIVE GarbageCollectLoop(_, _, _)
GarbageCollectLoop(Vpas, todo, t) ==
    IF todo = {} THEN Vpas
    ELSE LET vpaId == CHOOSE v \in todo : TRUE
         IN GarbageCollectLoop(GarbageCollectVpa(Vpas, vpaId, t), todo \ {vpaId}, t)

GarbageCollect(Vpas, t) == GarbageCollectLoop(Vpas, DOMAIN Vpas, t)

\* Variant of RateLimitedGarbageCollect without the rate limit: C5 tells it
\* from RateLimitedGarbageCollect.
GarbageCollectEveryCall(s, t) ==
    [s EXCEPT !.Vpas = GarbageCollect(s.Vpas, t), !.lastGC = t]

\* s: [Vpas, lastGC, gcInterval]
RateLimitedGarbageCollect(s, t) ==
    IF t - s.lastGC < s.gcInterval
    THEN s
    ELSE [s EXCEPT !.Vpas = GarbageCollect(s.Vpas, t), !.lastGC = t]

(***************************************************************************)
(* The VPA objects of the feed.  A VPA object is of one of a few shapes;   *)
(* a shape fixes its pod selector, its annotations, its resource policy,   *)
(* and the pods its selector matches.                                      *)
(***************************************************************************)
\* The value of the replicaRestrictedRange annotation: json tells whether
\* json.Unmarshal into []int accepts the text, ints is the array it yields.
\* no replicaRestrictedRange annotation
NoRange == [present |-> FALSE, json |-> FALSE, ints |-> << >>]

\* an annotation whose text is a JSON array of integers
RangeAnnotation(ints) == [present |-> TRUE, json |-> TRUE, ints |-> ints]

\* an annotation whose text json.Unmarshal rejects
MalformedRange == [present |-> TRUE, json |-> FALSE, ints |-> << >>]
MetricCPU == "system.cpu"
MetricMem == "system.mem"
MetricNames == {MetricCPU, MetricMem}
Mi == 1024 * 1024

\* an answer of the external metrics API: a value, or an error
Answer(v) == [ok |-> TRUE, value |-> v]

Err == [ok |-> FALSE, value |-> 0]

\* what the external metrics API can answer for each metric
MetricAnswers(m) ==
    IF m = MetricCPU THEN {Err, Answer(10), Answer(100)} ELSE {Err, Answer(30 * Mi), Answer(100 * Mi)}

VpaShapeNames == {"A", "B"}

\* Metrics: the vpa.datadoghq.com/metric-<resource>-<container> annotations;
\* PodContainers: the containers of the pods the selector matches;
\* ModeOff: containers whose policy has ContainerScalingModeOff;
\* Controlled: ControlledResources of the container policies;
\* MaxAllowed: maxAllowed of the container policies;
\* ReplicaRange: the replicaRestrictedRange annotation
VpaShape(name) ==
    IF name = "A"
    THEN [PodSelector |-> "name=vpa-pod-1",
          Metrics |-> [c \in {"c1"} |-> [r \in ResourceNames |->
                          IF r = ResourceCPU THEN MetricCPU ELSE MetricMem]],
          PodContainers |-> {"c1"},
          Replicas |-> 1,
          ModeOff |-> {},
          Controlled |-> [c \in {"c1"} |-> {ResourceCPU, ResourceMemory}],
          MaxAllowed |-> [c \in {"c1"} |-> [r \in {ResourceCPU} |-> 50]],
          IntegerCPU |-> {"c1"},
          ReplicaRange |-> NoRange,
          UpdateMode |-> "Auto",
          Requests |-> [c \in {"c1"} |-> [r \in ResourceNames |-> 50]]]
    ELSE [PodSelector |-> "name=vpa-pod-2",
          Metrics |-> [c \in {"c1", "c2"} |->
                          IF c = "c1"
                          THEN [r \in {ResourceCPU} |-> MetricCPU]
                          ELSE [r \in ResourceNames |->
                                   IF r = ResourceCPU THEN MetricCPU ELSE MetricMem]],
          PodContainers |-> {"c1", "c2"},
          Replicas |-> 2,
          ModeOff |-> {},
          Controlled |-> [c \in {"c2"} |-> {ResourceMemory}],
          MaxAllowed |-> EmptyMap,
          IntegerCPU |-> {"c1"},
          ReplicaRange |-> RangeAnnotation(<<1, 3>>),
          UpdateMode |-> "Off",
          Requests |-> [c \in {"c1", "c2"} |-> [r \in ResourceNames |-> 50]]]

\* the VPA objects the API server serves under an id while the loop runs
FeedVpas(id) == [created : {0}, shape : {IF id = "v1" THEN "A" ELSE "B"}]

(***************************************************************************)
(* logic.podResourceRecommender                                            *)
(***************************************************************************)
\* model.ScaleResource with the factor given in percent: the amount times
\* the factor, truncated
ScaleResource(amount, pct) ==
    (amount \div 100) * pct + ((amount % 100) * pct) \div 100

\* model.ScaleResource(amount, 1.0 / n)
ScaleResourceByFraction(amount, n) == amount \div n

FilterControlledResources(estimation, controlledResources) ==
    [r \in (DOMAIN estimation) \cap controlledResources |-> estimation[r]]

newRecommendedContainerResources(resources) ==
    [Target |-> resources, LowerBound |-> resources, UpperBound |-> resources]

minResources(n) ==
    [r \in ResourceNames |->
        IF r = ResourceCPU
        THEN ScaleResourceByFraction(PodMinCPUMillicores, n)
        ELSE ScaleResourceByFraction(PodMinMemoryMb * 1024 * 1024, n)]

\* Variant of AddMarginAndMinimum that adds no margin: C10 tells it from
\* AddMarginAndMinimum.
AddMinimumOnly(resources, n, marginPct) ==
    [r \in DOMAIN resources |->
        IF resources[r] < minResources(n)[r] THEN minResources(n)[r] ELSE resources[r]]

\* the two inner loops of GetRecommendedPodResources: they write the margin
\* and the minimum into the map they were given
AddMarginAndMinimum(resources, n, marginPct) ==
    [r \in DOMAIN resources |->
        LET withMargin == resources[r] + ScaleResource(resources[r], marginPct)
        IN IF withMargin < minResources(n)[r] THEN minResources(n)[r] ELSE withMargin]

\* containerNameToRecommendedResources: container -> Resources; the maps are
\* the ones the state holds, so the result carries, besides the
\* recommendation, the maps as the call leaves them
GetRecommendedPodResources(containerNameToRecommendedResources, containerNameToAggregateStateMap, marginPct) ==
    LET names == DOMAIN containerNameToRecommendedResources
        n == Cardinality(names)
        written == [c \in names |->
                       AddMarginAndMinimum(containerNameToRecommendedResources[c], n, marginPct)]
        found == names \cap DOMAIN containerNameToAggregateStateMap
    IN IF n = 0
       THEN [recommendation |-> EmptyMap, resources |-> containerNameToRecommendedResources]
       ELSE [recommendation |->
                [c \in found |-> newRecommendedContainerResources(
                    FilterControlledResources(written[c],
                        containerNameToAggregateStateMap[c].ControlledResources))],
             resources |-> written]

(***************************************************************************)
(* main: the post-processor chain                                          *)
(***************************************************************************)
IntegerCPUPostProcessor == "IntegerCPUPostProcessor"
ReplicaRestrictionsPostProcessor == "ReplicaRestrictionsPostProcessor"
CappingPostProcessor == "CappingPostProcessor"
SafetyMarginModifierPostProcessor == "SafetyMarginModifierPostProcessor"
ResourceRatioRecommendationPostProcessor == "ResourceRatioRecommendationPostProcessor"

\* fl: the three post-processor flags
\* Variant of BuildPostProcessors that puts capping first: C1 tells it from
\* BuildPostProcessors.
BuildPostProcessorsCappingFirst(fl) ==
    <<CappingPostProcessor>>
    \o (IF fl.postProcessorCPUasInteger THEN <<IntegerCPUPostProcessor>> ELSE << >>)
    \o (IF fl.postProcessorReplicaRestrictions
        THEN <<ReplicaRestrictionsPostProcessor>> ELSE << >>)

BuildPostProcessors(fl) ==
    (IF fl.postProcessorCPUasInteger THEN <<IntegerCPUPostProcessor>> ELSE << >>)
    \o (IF fl.postProcessorMaintainResourceRatio
        THEN <<ReplicaRestrictionsPostProcessor>> ELSE << >>)
    \o (IF fl.postProcessorReplicaRestrictions
        THEN <<ReplicaRestrictionsPostProcessor>> ELSE << >>)
    \o <<CappingPostProcessor>>

FlagSets == [postProcessorCPUasInteger : BOOLEAN,
             postProcessorMaintainResourceRatio : BOOLEAN,
             postProcessorReplicaRestrictions : BOOLEAN]

(***************************************************************************)
(* The post-processors.  A recommendation is the list of the container     *)
(* recommendations [ContainerName, Target, LowerBound, UpperBound,         *)
(* UncappedTarget].                                                        *)
(***************************************************************************)
\* ResourceList.Name(r).MilliValue(): zero for a resource the list lacks
QuantityOf(list, r) == IF r \in DOMAIN list THEN list[r] ELSE 0

\* The VPA object, and the pod template of its target, behind a model.Vpa:
\* the ones of its shape; a VPA handed to a post-processor directly carries
\* them itself.
VpaObject(vpa) == IF "Shape" \in DOMAIN vpa THEN VpaShape(vpa.Shape) ELSE vpa

\* vpa.UpdateMode of a VPA whose update mode is not set: a nil pointer
NoUpdateMode == "<nil>"

\* the result is the pair (replicaRange, err); << >> stands for nil
readRangeFromVPAAnnotations(vpa) ==
    LET annotation == VpaObject(vpa).ReplicaRange
    IN IF ~annotation.present THEN [replicaRange |-> << >>, err |-> FALSE]
       ELSE IF ~annotation.json THEN [replicaRange |-> << >>, err |-> TRUE]
       ELSE IF Len(annotation.ints) # 2 THEN [replicaRange |-> << >>, err |-> TRUE]
       ELSE [replicaRange |-> annotation.ints, err |-> FALSE]

isUpscale(recommendation, containerOriginalResources) ==
    \E r \in DOMAIN recommendation :
        recommendation[r] > QuantityOf(containerOriginalResources, r)

isDownscale(recommendation, containerOriginalResources) ==
    \E r \in DOMAIN recommendation :
        recommendation[r] < QuantityOf(containerOriginalResources, r)

isRestrictedScaling(containerRecommendation, requests, downscaleIfLessReplicasThan, upscaleIfMoreReplicasThan, replicas) ==
    \/ isUpscale(containerRecommendation.Target, requests)
       /\ replicas <= upscaleIfMoreReplicasThan
    \/ isDownscale(containerRecommendation.Target, requests)
       /\ replicas >= downscaleIfLessReplicasThan

applyRestrictedScalingVPAPolicy(recommendation, isRestricted, containerOriginalResources) ==
    [r \in DOMAIN recommendation |->
        IF isRestricted THEN QuantityOf(containerOriginalResources, r)
        ELSE recommendation[r]]

getRecommendationForContainerWithRestrictedScaling(requests, containerRecommendation, replicas, downscaleIfLessReplicasThan, upscaleIfMoreReplicasThan) ==
    [containerRecommendation EXCEPT !.Target =
        applyRestrictedScalingVPAPolicy(containerRecommendation.Target,
            isRestrictedScaling(containerRecommendation, requests,
                downscaleIfLessReplicasThan, upscaleIfMoreReplicasThan, replicas),
            requests)]

\* ReplicaRestrictionsPostProcessor.apply: a container the pod template
\* lacks is left out of the result
ReplicaRestrictionsApply(podRecommendation, replicas, downscaleIfLessReplicasThan, upscaleIfMoreReplicasThan, podRequests) ==
    LET kept == SelectSeq(podRecommendation,
                          LAMBDA cr : cr.ContainerName \in DOMAIN podRequests)
    IN [i \in 1..Len(kept) |->
           getRecommendationForContainerWithRestrictedScaling(
               podRequests[kept[i].ContainerName], kept[i], replicas,
               downscaleIfLessReplicasThan, upscaleIfMoreReplicasThan)]

\* Process reaches the test of *vpa.UpdateMode: the range was read and
\* downscaleIfLessReplicasThan < upscaleIfMoreReplicasThan
ReplicaRestrictionsReadsUpdateMode(vpa) ==
    LET replicaRange == readRangeFromVPAAnnotations(vpa).replicaRange
    IN IF Len(replicaRange) # 2 THEN FALSE ELSE replicaRange[1] < replicaRange[2]

\* Variant of ReplicaRestrictionsProcess that does not test
\* downscaleIfLessReplicasThan >= upscaleIfMoreReplicasThan: C16 tells it
\* from ReplicaRestrictionsProcess.
ReplicaRestrictionsProcessAnyBand(vpa, recommendation) ==
    LET replicaRange == readRangeFromVPAAnnotations(vpa).replicaRange
    IN IF Len(replicaRange) # 2 THEN recommendation
       ELSE IF VpaObject(vpa).UpdateMode \notin {"Off", "Trigger"} THEN recommendation
       ELSE ReplicaRestrictionsApply(recommendation, vpa.PodCount,
                replicaRange[1], replicaRange[2], VpaObject(vpa).Requests)

\* Process for a recommendation that is not nil and an update mode that is set
ReplicaRestrictionsProcess(vpa, recommendation) ==
    LET replicaRange == readRangeFromVPAAnnotations(vpa).replicaRange
    IN IF Len(replicaRange) # 2 THEN recommendation
       ELSE IF replicaRange[1] >= replicaRange[2] THEN recommendation
       ELSE IF VpaObject(vpa).UpdateMode \notin {"Off", "Trigger"} THEN recommendation
       ELSE ReplicaRestrictionsApply(recommendation, vpa.PodCount,
                replicaRange[1], replicaRange[2], VpaObject(vpa).Requests)

\* the smallest multiple of 1000 milli-cores that is not below the amount
RoundUpToWholeCores(milli) == ((milli + 999) \div 1000) * 1000

IntegerCPUProcess(vpa, recommendation) ==
    [i \in 1..Len(recommendation) |->
        LET cr == recommendation[i]
        IN IF cr.ContainerName \in VpaObject(vpa).IntegerCPU
              /\ ResourceCPU \in DOMAIN cr.Target
           THEN [cr EXCEPT !.Target[ResourceCPU] = RoundUpToWholeCores(@)]
           ELSE cr]

\* the amounts of a resource list clamped to the container's maxAllowed
CapToMax(list, maxAllowed) ==
    [r \in DOMAIN list |->
        IF r \in DOMAIN maxAllowed THEN Min(list[r], maxAllowed[r]) ELSE list[r]]

CappingProcess(vpa, recommendation) ==
    [i \in 1..Len(recommendation) |->
        LET cr == recommendation[i]
            policy == VpaObject(vpa).MaxAllowed
            maxAllowed == IF cr.ContainerName \in DOMAIN policy
                          THEN policy[cr.ContainerName] ELSE EmptyMap
        IN [cr EXCEPT !.Target = CapToMax(@, maxAllowed),
                      !.LowerBound = CapToMax(@, maxAllowed),
                      !.UpperBound = CapToMax(@, maxAllowed)]]

(***************************************************************************)
(* SafetyMarginModifierPostProcessor.  The value of a                      *)
(* <container>_safetyMarginModifier annotation is [json, modifier]: json   *)
(* tells whether the text is JSON of the expected form, modifier maps      *)
(* "cpu", "memory" or "*" to [Function, Parameters], Function being the    *)
(* function name of the text in lower case.  Factors are in percent.       *)
(***************************************************************************)
\* SafetyMarginModifierPostProcessor.DefaultSafetyMarginFactor, in percent
DefaultSafetyMarginFactor == 100

\* modifierFunction.UnmarshalJSON: the error it returns
modifierFunctionUnmarshalJSON(functionString) ==
    functionString \notin {"linear", "log", "affine", "exponential"}

\* the modifiers of the containers whose annotation json.Unmarshal accepts
readSafetyMarginModifierFromVPAAnnotations(vpa) ==
    LET annotations == VpaObject(vpa).SafetyMarginModifiers
        accepted == {c \in DOMAIN annotations :
                        /\ annotations[c].json
                        /\ \A k \in DOMAIN annotations[c].modifier :
                              ~modifierFunctionUnmarshalJSON(annotations[c].modifier[k].Function)}
    IN [c \in accepted |->
           LET m == annotations[c].modifier
           IN IF "*" \in DOMAIN m
              THEN [r \in ((DOMAIN m) \ {"*"}) \cup ResourceNames |->
                       IF r \in ResourceNames THEN m["*"] ELSE m[r]]
              ELSE m]

\* rec / defaultSafetyMargin * slope, truncated
linearModifier(rec, defaultSafetyMargin, slope) == (rec * slope) \div defaultSafetyMargin

\* rec / defaultSafetyMargin * slope + constant, truncated
affineModifier(rec, defaultSafetyMargin, constant, slope) ==
    (rec * slope) \div defaultSafetyMargin + constant

\* the number of parameters applyModifier requires of a function
requiredParameters(function) == IF function \in {"linear", "log"} THEN 1 ELSE 2

\* applyModifier on one resource list: the pair (list, err).  The log and
\* exponential functions need float64 arithmetic: no annotation drawn calls
\* them with the right number of parameters.
applyModifier(containerRec, modifier) ==
    LET touched == (DOMAIN containerRec) \cap (DOMAIN modifier)
        newRec(r) ==
            LET resourceModifier == modifier[r]
            IN CASE resourceModifier.Function = "linear" ->
                      linearModifier(containerRec[r], DefaultSafetyMarginFactor,
                                     resourceModifier.Parameters[1])
                 [] resourceModifier.Function = "affine" ->
                      affineModifier(containerRec[r], DefaultSafetyMarginFactor,
                                     resourceModifier.Parameters[1],
                                     resourceModifier.Parameters[2])
    IN IF \E r \in touched :
             Len(modifier[r].Parameters) # requiredParameters(modifier[r].Function)
       THEN [list |-> containerRec, err |-> TRUE]
       ELSE [list |-> [r \in DOMAIN containerRec |->
                          IF r \in touched THEN newRec(r) ELSE containerRec[r]],
             err |-> FALSE]

\* Process for a recommendation that is not nil: the first error of
\* applyModifier makes it return the recommendation it was given
SafetyMarginModifierProcess(vpa, recommendation) ==
    LET modifiers == readSafetyMarginModifierFromVPAAnnotations(vpa)
        found(i) == recommendation[i].ContainerName \in DOMAIN modifiers
        modifier(i) == modifiers[recommendation[i].ContainerName]
        fails(i) ==
            \/ applyModifier(recommendation[i].LowerBound, modifier(i)).err
            \/ applyModifier(recommendation[i].Target, modifier(i)).err
            \/ applyModifier(recommendation[i].UpperBound, modifier(i)).err
            \/ applyModifier(recommendation[i].UncappedTarget, modifier(i)).err
    IN IF \E i \in 1..Len(recommendation) : found(i) /\ fails(i)
       THEN recommendation
       ELSE [i \in 1..Len(recommendation) |->
                IF ~found(i) THEN recommendation[i]
                ELSE [recommendation[i] EXCEPT
                         !.LowerBound = applyModifier(@, modifier(i)).list,
                         !.Target = applyModifier(@, modifier(i)).list,
                         !.UpperBound = applyModifier(@, modifier(i)).list,
                         !.UncappedTarget = applyModifier(@, modifier(i)).list]]

(***************************************************************************)
(* ResourceRatioRecommendationPostProcessor.  The value of a               *)
(* <container>_resourceRatios annotation is [json, ratioDef]: ratioDef     *)
(* maps a resource to [Resource, explicit, Ratio], explicit telling        *)
(* whether the text gives a ratio.  Amounts are milli-cores of CPU and     *)
(* bytes of memory.                                                        *)
(***************************************************************************)
\* a resource name of the ratio annotations besides CPU and memory
ResourceStorage == "storage"

RatioResourceNames == {ResourceCPU, ResourceMemory, ResourceStorage}

\* Quantity.MilliValue() of an amount
MilliValue(r, amount) == IF r = ResourceCPU THEN amount ELSE amount * 1000

\* the amount of a quantity set with SetMilli
AmountOfMilli(r, milli) == IF r = ResourceCPU THEN milli ELSE milli \div 1000

\* the order in which a range over g.nodes yields the resources: Go leaves
\* it open, so it is drawn
VARIABLE mapOrder

\* the place of resource n in the range over g.nodes
RangeIndex(n) == CHOOSE i \in 1..Len(mapOrder) : mapOrder[i] = n

\* the ratios of the containers whose annotation json.Unmarshal accepts, as
\* sets of [original, target, explicit, ratio]
readResourceRatioFromVPAAnnotations(vpa) ==
    LET annotations == VpaObject(vpa).ResourceRatios
    IN [c \in {x \in DOMAIN annotations : annotations[x].json} |->
           {[original |-> k, target |-> annotations[c].ratioDef[k].Resource,
             explicit |-> annotations[c].ratioDef[k].explicit,
             ratio |-> annotations[c].ratioDef[k].Ratio] :
                k \in DOMAIN annotations[c].ratioDef}]

\* the leaves appended to the list instead of put in front of it
RECURSIVE getOrderedListLeavesFirst(_, _, _)
getOrderedListLeavesFirst(nodes, edges, orderedList) ==
    IF nodes = {}
    THEN [orderedList |-> orderedList, acyclic |-> TRUE]
    ELSE LET leaves == {n \in nodes :
                           ~\E e \in edges : e.original = n /\ e.target \in nodes}
         IN IF leaves = {}
            THEN [orderedList |-> << >>, acyclic |-> FALSE]
            ELSE LET n == CHOOSE x \in leaves :
                              \A y \in leaves : RangeIndex(x) <= RangeIndex(y)
                 IN getOrderedListLeavesFirst(nodes \ {n}, edges, Append(orderedList, n))

\* nodes: the nodes still in the graph; a leaf is removed at each round
RECURSIVE getOrderedListAndPredecessors(_, _, _)
getOrderedListAndPredecessors(nodes, edges, orderedList) ==
    IF nodes = {}
    THEN [orderedList |-> orderedList, acyclic |-> TRUE]
    ELSE LET leaves == {n \in nodes :
                           ~\E e \in edges : e.original = n /\ e.target \in nodes}
         IN IF leaves = {}
            THEN [orderedList |-> << >>, acyclic |-> FALSE]
            ELSE LET n == CHOOSE x \in leaves :
                              \A y \in leaves : RangeIndex(x) <= RangeIndex(y)
                 IN getOrderedListAndPredecessors(nodes \ {n}, edges, <<n>> \o orderedList)

\* the order computed without the check on the number of predecessors
getMaintainedRatiosCalculationOrderAnyPredecessors(ratios) ==
    LET nodes == {e.original : e \in ratios} \cup {e.target : e \in ratios}
        sorted == getOrderedListAndPredecessors(nodes, ratios, << >>)
        predecessors(n) == {e.original : e \in {x \in ratios : x.target = n}}
        withPredecessor == SelectSeq(sorted.orderedList,
                                     LAMBDA n : predecessors(n) # {})
    IN IF ~sorted.acyclic THEN [ordered |-> << >>, err |-> TRUE]
       ELSE [ordered |-> [i \in 1..Len(withPredecessor) |->
                            CHOOSE e \in ratios : e.target = withPredecessor[i]],
             err |-> FALSE]

\* the pair (ordered ratios, err)
getMaintainedRatiosCalculationOrder(ratios) ==
    LET nodes == {e.original : e \in ratios} \cup {e.target : e \in ratios}
        sorted == getOrderedListAndPredecessors(nodes, ratios, << >>)
        predecessors(n) == {e.original : e \in {x \in ratios : x.target = n}}
        withPredecessor == SelectSeq(sorted.orderedList,
                                     LAMBDA n : predecessors(n) # {})
    IN IF ~sorted.acyclic THEN [ordered |-> << >>, err |-> TRUE]
       ELSE IF \E n \in nodes : Cardinality(predecessors(n)) > 1
            THEN [ordered |-> << >>, err |-> TRUE]
       ELSE [ordered |-> [i \in 1..Len(withPredecessor) |->
                            CHOOSE e \in ratios : e.target = withPredecessor[i]],
             err |-> FALSE]

\* the loop of applyMaintainRatioVPAPolicy from index i on
RECURSIVE applyRatioConstraints(_, _, _, _)
applyRatioConstraints(recommendation, ordered, i, containerOriginalResources) ==
    IF i > Len(ordered) THEN recommendation
    ELSE LET ratioConstraint == ordered[i]
             qA == MilliValue(ratioConstraint.original,
                       QuantityOf(containerOriginalResources, ratioConstraint.original))
             qB == MilliValue(ratioConstraint.target,
                       QuantityOf(containerOriginalResources, ratioConstraint.target))
             rA == MilliValue(ratioConstraint.original,
                       QuantityOf(recommendation, ratioConstraint.original))
             rB == IF ratioConstraint.explicit THEN rA * ratioConstraint.ratio
                   ELSE (rA \div Max(qA, 1)) * qB + ((rA % Max(qA, 1)) * qB) \div Max(qA, 1)
         IN IF ~ratioConstraint.explicit /\ qA = 0
            THEN applyRatioConstraints(recommendation, ordered, i + 1,
                                       containerOriginalResources)
            ELSE applyRatioConstraints(
                     MapSet(recommendation, ratioConstraint.target,
                            AmountOfMilli(ratioConstraint.target, rB)),
                     ordered, i + 1, containerOriginalResources)

\* ratiosPolicies: the ratios of the container, {} for nil
applyMaintainRatioVPAPolicy(recommendation, ratiosPolicies, containerOriginalResources) ==
    IF ratiosPolicies = {} THEN recommendation
    ELSE LET order == getMaintainedRatiosCalculationOrder(ratiosPolicies)
         IN IF order.err THEN recommendation
            ELSE applyRatioConstraints(recommendation, order.ordered, 1,
                                       containerOriginalResources)

getRecommendationForContainerWithRatioApplied(requests, containerRecommendation, containerPolicy) ==
    [containerRecommendation EXCEPT
        !.Target = applyMaintainRatioVPAPolicy(@, containerPolicy, requests),
        !.LowerBound = applyMaintainRatioVPAPolicy(@, containerPolicy, requests),
        !.UpperBound = applyMaintainRatioVPAPolicy(@, containerPolicy, requests)]

\* ResourceRatioRecommendationPostProcessor.apply: a container the pod
\* template lacks is left out of the result
ResourceRatioApply(podRecommendation, ratios, podRequests) ==
    LET kept == SelectSeq(podRecommendation,
                          LAMBDA cr : cr.ContainerName \in DOMAIN podRequests)
    IN [i \in 1..Len(kept) |->
           getRecommendationForContainerWithRatioApplied(
               podRequests[kept[i].ContainerName], kept[i],
               IF kept[i].ContainerName \in DOMAIN ratios
               THEN ratios[kept[i].ContainerName] ELSE {})]

\* Process for a recommendation that is not nil
ResourceRatioProcess(vpa, recommendation) ==
    LET ratios == readResourceRatioFromVPAAnnotations(vpa)
    IN IF DOMAIN ratios = {} THEN recommendation
       ELSE ResourceRatioApply(recommendation, ratios, VpaObject(vpa).Requests)

\* postProcessor.Process(vpa, recommendation, policy)
Process(postProcessor, vpa, recommendation) ==
    IF postProcessor = IntegerCPUPostProcessor THEN IntegerCPUProcess(vpa, recommendation)
    ELSE IF postProcessor = SafetyMarginModifierPostProcessor
         THEN SafetyMarginModifierProcess(vpa, recommendation)
    ELSE IF postProcessor = ResourceRatioRecommendationPostProcessor
         THEN ResourceRatioProcess(vpa, recommendation)
    ELSE IF postProcessor = ReplicaRestrictionsPostProcessor
         THEN ReplicaRestrictionsProcess(vpa, recommendation)
    ELSE CappingProcess(vpa, recommendation)

\* the loop of UpdateVPAs over r.recommendationPostProcessor, from index i on;
\* the result carries the names of the post-processors in the order applied
RECURSIVE ApplyPostProcessors(_, _, _, _, _)
ApplyPostProcessors(chain, i, vpa, recommendation, log) ==
    IF i > Len(chain)
    THEN [recommendation |-> recommendation, log |-> log]
    ELSE ApplyPostProcessors(chain, i + 1, vpa, Process(chain[i], vpa, recommendation),
                             Append(log, chain[i]))

(***************************************************************************)
(* A call of Process.  The recommendation of a call is a pointer: nil, or  *)
(* a list of container recommendations; the call returns a pointer or      *)
(* panics.                                                                 *)
(***************************************************************************)
NilRecommendation == [nil |-> TRUE, ContainerRecommendations |-> << >>]

PodRecommendation(list) == [nil |-> FALSE, ContainerRecommendations |-> list]

Returned(recommendation) == [panicked |-> FALSE, recommendation |-> recommendation]

Panicked == [panicked |-> TRUE, recommendation |-> NilRecommendation]

\* SafetyMarginModifierPostProcessor.Process: DeepCopy of nil is nil, and
\* the loop reads its ContainerRecommendations
SafetyMarginModifierCall(vpa, recommendation) ==
    IF recommendation.nil THEN Panicked
    ELSE Returned(PodRecommendation(
             SafetyMarginModifierProcess(vpa, recommendation.ContainerRecommendations)))

\* ResourceRatioRecommendationPostProcessor.Process
ResourceRatioCall(vpa, recommendation) ==
    IF recommendation.nil THEN Returned(recommendation)
    ELSE Returned(PodRecommendation(
             ResourceRatioProcess(vpa, recommendation.ContainerRecommendations)))

\* ReplicaRestrictionsPostProcessor.Process: *vpa.UpdateMode is read once
\* the range is known to be good
ReplicaRestrictionsCall(vpa, recommendation) ==
    IF recommendation.nil THEN Returned(recommendation)
    ELSE IF ReplicaRestrictionsReadsUpdateMode(vpa)
            /\ VpaObject(vpa).UpdateMode = NoUpdateMode
         THEN Panicked
    ELSE Returned(PodRecommendation(
             ReplicaRestrictionsProcess(vpa, recommendation.ContainerRecommendations)))

\* postProcessor.Process(vpa, recommendation, policy) as a call
ProcessCall(postProcessor, vpa, recommendation) ==
    IF postProcessor = SafetyMarginModifierPostProcessor
    THEN SafetyMarginModifierCall(vpa, recommendation)
    ELSE IF postProcessor = ResourceRatioRecommendationPostProcessor
         THEN ResourceRatioCall(vpa, recommendation)
    ELSE IF postProcessor = ReplicaRestrictionsPostProcessor
         THEN ReplicaRestrictionsCall(vpa, recommendation)
    ELSE IF recommendation.nil THEN Returned(recommendation)
    ELSE Returned(PodRecommendation(
             Process(postProcessor, vpa, recommendation.ContainerRecommendations)))

\* the loop of UpdateVPAs over the post-processors as calls, from index i
\* on: a panic ends it
RECURSIVE ApplyPostProcessorCalls(_, _, _, _)
ApplyPostProcessorCalls(chain, i, vpa, recommendation) ==
    IF i > Len(chain) THEN Returned(recommendation)
    ELSE LET result == ProcessCall(chain[i], vpa, recommendation)
         IN IF result.panicked THEN result
            ELSE ApplyPostProcessorCalls(chain, i + 1, vpa, result.recommendation)

(***************************************************************************)
(* State.                                                                  *)
(***************************************************************************)
VARIABLES
    upstream,         \* a metrics source's configuration and what its upstream answers
    listed,           \* how the last List call of a metrics source ended
    seen,             \* filterOutLongPending.seen
    filterNow,        \* the clock of the long-pending filter, in hours
    filterCalls,      \* the Process calls made on the filter so far, in order
    scaleDownDelayAfterAdd, \* AutoscalingOptions.ScaleDownDelayAfterAdd, in hours
    postVpa,          \* the VPA handed to the post-processors
    postRecommendation, \* the recommendation the next call is handed
    postCalls,        \* the calls of post-processors made so far, in order
    flags,            \* the post-processor flags of main
    safetyMarginPct,  \* the recommendation-margin-fraction flag, in percent
    postProcessors,   \* recommender.recommendationPostProcessor
    feed,             \* the VPA objects of the orchestrator: id -> [created, shape]
    status,           \* the status.recommendation of the VPA objects
    provider,         \* the external metrics API: metric -> answer
    clusterVpas,      \* clusterState.Vpas
    observedVpas,     \* clusterState.ObservedVpas
    extVpas,          \* externalRecommendationsState.Vpas
    lastGC,           \* externalRecommendationsState.lastGC
    gcInterval,       \* externalRecommendationsState.gcInterval
    now,              \* the wall clock
    pc,               \* 0: between two RunOnce calls; i: step i of RunOnce is next
    steps,            \* the steps of the current RunOnce that have run, in order
    applied,          \* per VPA, the post-processors UpdateVPAs applied, in order
    processed,        \* the VPAs the last UpdateVPAs computed a recommendation for
    failed,           \* the VPAs whose update failed in the last UpdateVPAs
    lastGood,         \* per VPA, container and resource: the last value fetched
    engineOut,        \* per VPA, what GetRecommendedPodResources returned last
    lastCall          \* the last operation called on the state

vars == <<flags, safetyMarginPct, postProcessors, feed, status, provider, clusterVpas,
          observedVpas, extVpas, lastGC, gcInterval, now, pc, steps, applied,
          processed, failed, lastGood, engineOut, lastCall, postVpa,
          postRecommendation, postCalls, mapOrder, upstream, listed, seen,
          filterNow, filterCalls, scaleDownDelayAfterAdd>>

postVars == <<postVpa, postRecommendation, postCalls, mapOrder>>

sourceVars == <<upstream, listed>>

filterVars == <<seen, filterNow, filterCalls, scaleDownDelayAfterAdd>>

\* what neither the loop nor the calls on the state change
configVars == <<flags, safetyMarginPct, postProcessors, gcInterval, postVars, sourceVars,
                filterVars>>

\* no post-processor is called outside the loop
\* no List call is made on a metrics source
InitNoSource ==
    /\ upstream = EmptyMap
    /\ listed = EmptyMap

\* a filter that is never called
InitNoFilter ==
    /\ seen = EmptyMap
    /\ filterNow = 0
    /\ filterCalls = << >>
    /\ scaleDownDelayAfterAdd = 0

InitNoPost ==
    /\ postVpa = EmptyMap
    /\ postRecommendation = NilRecommendation
    /\ postCalls = << >>
    /\ mapOrder = <<ResourceCPU, ResourceMemory, ResourceStorage>>
    /\ InitNoSource
    /\ InitNoFilter

(***************************************************************************)
(* input.externalRecommendationsStateFeeder                                *)
(***************************************************************************)
RECURSIVE LoadVPAsAddLoop(_, _, _)
LoadVPAsAddLoop(Vpas, cluster, todo) ==
    IF todo = {} THEN Vpas
    ELSE LET v == CHOOSE x \in todo : TRUE
         IN LoadVPAsAddLoop(AddOrUpdateVpa(Vpas, cluster[v]), cluster, todo \ {v})

RECURSIVE LoadVPAsDeleteLoop(_, _, _)
LoadVPAsDeleteLoop(Vpas, vpaKeys, todo) ==
    IF todo = {} THEN Vpas
    ELSE LET vpaID == CHOOSE x \in todo : TRUE
         IN LoadVPAsDeleteLoop(
                IF vpaID \notin vpaKeys THEN DeleteVpa(Vpas, vpaID) ELSE Vpas,
                vpaKeys, todo \ {vpaID})

\* Variant of LoadVPAs that deletes nothing: C2 tells it from LoadVPAs.
LoadVPAsWithoutDelete(Vpas, cluster) ==
    LoadVPAsAddLoop(Vpas, cluster, DOMAIN cluster)

\* Vpas: externalRecommendationsState.Vpas; cluster: clusterState.Vpas
LoadVPAs(Vpas, cluster) ==
    LET added == LoadVPAsAddLoop(Vpas, cluster, DOMAIN cluster)
        vpaKeys == {cluster[v].ID : v \in DOMAIN cluster}
    IN LoadVPAsDeleteLoop(added, vpaKeys, DOMAIN added)

\* Variant of FetchedRecommendation that stores 0 for a resource whose fetch
\* failed: C12 tells it from FetchedRecommendation.
FetchedRecommendationZeroFilled(resourceToMetrics, prov) ==
    [r \in DOMAIN resourceToMetrics |->
        IF prov[resourceToMetrics[r]].ok THEN prov[resourceToMetrics[r]].value ELSE 0]

\* loadMetric for every resource of one container: the resources whose fetch
\* failed are left out of the recommendation
FetchedRecommendation(resourceToMetrics, prov) ==
    [r \in {x \in DOMAIN resourceToMetrics : prov[resourceToMetrics[x]].ok} |->
        prov[resourceToMetrics[r]].value]

RECURSIVE loadMetrics(_, _, _, _, _, _)
loadMetrics(Vpas, vpa, containersToResourcesAndMetrics, todo, prov, t) ==
    IF todo = {} THEN Vpas
    ELSE LET container == CHOOSE c \in todo : TRUE
             recommendation ==
                 FetchedRecommendation(containersToResourcesAndMetrics[container], prov)
         IN loadMetrics(
                AddContainerRecommendation(Vpas, vpa.ID, container, recommendation, t),
                vpa, containersToResourcesAndMetrics, todo \ {container}, prov, t)

\* the metric annotations of the VPA, parsed
GetVpaExternalMetrics(vpa) == VpaShape(vpa.Shape).Metrics

RECURSIVE LoadMetricsLoop(_, _, _, _, _)
LoadMetricsLoop(Vpas, cluster, todo, prov, t) ==
    IF todo = {} THEN Vpas
    ELSE LET v == CHOOSE x \in todo : TRUE
             metrics == GetVpaExternalMetrics(cluster[v])
         IN LoadMetricsLoop(
                loadMetrics(Vpas, cluster[v], metrics, DOMAIN metrics, prov, t),
                cluster, todo \ {v}, prov, t)

LoadMetrics(Vpas, cluster, prov, t) ==
    LoadMetricsLoop(Vpas, cluster, DOMAIN cluster, prov, t)

(***************************************************************************)
(* The cluster state and its feeder.                                       *)
(***************************************************************************)
NewVpa(id, created, shape) ==
    [ID |-> id, Created |-> created, Shape |-> shape,
     PodSelector |-> VpaShape(shape).PodSelector, PodCount |-> 0,
     Aggregates |-> {}, Recommendation |-> << >>]

\* ClusterState.AddOrUpdateVpa: a VPA whose pod selector changed is deleted
\* and created again; the recommendation is the one of the object's status
ClusterAddOrUpdateVpa(cluster, id, object, objectStatus) ==
    LET vpaExists == id \in DOMAIN cluster
                     /\ cluster[id].PodSelector = VpaShape(object.shape).PodSelector
        vpa == IF vpaExists THEN cluster[id] ELSE NewVpa(id, object.created, object.shape)
    IN MapSet(cluster, id,
              [vpa EXCEPT !.Shape = object.shape, !.Recommendation = objectStatus])

\* clusterStateFeeder.LoadVPAs
ClusterLoadVPAs(cluster, objects, objectStatus) ==
    [id \in DOMAIN objects |->
        ClusterAddOrUpdateVpa(cluster, id, objects[id], objectStatus[id])[id]]

\* clusterStateFeeder.LoadPods: the pods each VPA matches and their containers
ClusterLoadPods(cluster) ==
    [id \in DOMAIN cluster |->
        [cluster[id] EXCEPT !.PodCount = VpaShape(cluster[id].Shape).Replicas,
                            !.Aggregates = VpaShape(cluster[id].Shape).PodContainers]]

(***************************************************************************)
(* routines.recommender                                                    *)
(***************************************************************************)
GetContainerNameToRecommendedResources(vpa, vpaRecommendations) ==
    LET ok == {c \in DOMAIN vpaRecommendations.Containers :
                  /\ c \notin VpaShape(vpa.Shape).ModeOff
                  /\ DOMAIN vpaRecommendations.Containers[c].RawRecommendation # {}}
    IN [c \in ok |-> vpaRecommendations.Containers[c].RawRecommendation]

GetContainerNameToAggregateStateMap(vpa) ==
    [c \in vpa.Aggregates \ VpaShape(vpa.Shape).ModeOff |->
        [ControlledResources |->
            IF c \in DOMAIN VpaShape(vpa.Shape).Controlled
            THEN VpaShape(vpa.Shape).Controlled[c]
            ELSE {ResourceCPU, ResourceMemory}]]

\* logic.MapToListOfRecommendedContainerResources: sorted by container name
MapToListOfRecommendedContainerResources(resources) ==
    LET names == SelectSeq(ContainerOrder, LAMBDA c : c \in DOMAIN resources)
    IN [i \in 1..Len(names) |->
           [ContainerName |-> names[i],
            Target |-> resources[names[i]].Target,
            LowerBound |-> resources[names[i]].LowerBound,
            UpperBound |-> resources[names[i]].UpperBound,
            UncappedTarget |-> resources[names[i]].Target]]

\* the maps GetRecommendedPodResources wrote into are the RawRecommendation
\* maps of the state
StoreWritten(vpaState, written) ==
    [vpaState EXCEPT !.Containers =
        [c \in DOMAIN vpaState.Containers |->
            IF c \in DOMAIN written
            THEN [vpaState.Containers[c] EXCEPT !.RawRecommendation = written[c]]
            ELSE vpaState.Containers[c]]]

\* the body of the loop of UpdateVPAs for one observed VPA; st is the state
\* the loop works on, recordFails and writeFails are the VPAs for which
\* RecordRecommendation and the status update fail
UpdateVPA(st, key, recordFails, writeFails) ==
    IF key \notin DOMAIN st.cluster \/ key \notin DOMAIN st.ext
    THEN st
    ELSE LET vpa == st.cluster[key]
             vpaRecommendation == st.ext[key]
             out == GetRecommendedPodResources(
                        GetContainerNameToRecommendedResources(vpa, vpaRecommendation),
                        GetContainerNameToAggregateStateMap(vpa), st.marginPct)
             post == ApplyPostProcessors(st.chain, 1, vpa,
                        MapToListOfRecommendedContainerResources(out.recommendation),
                        << >>)
         IN [st EXCEPT
                !.cluster[key].Recommendation = post.recommendation,
                !.ext[key] = StoreWritten(vpaRecommendation, out.resources),
                !.status = IF key \in writeFails THEN @
                           ELSE MapSet(@, key, post.recommendation),
                !.applied = MapSet(@, key, post.log),
                !.engineOut = MapSet(@, key, out.recommendation),
                !.processed = @ \cup {key},
                !.failed = @ \cup ({key} \cap (recordFails \cup writeFails))]

\* Variant of the loop of UpdateVPAs that returns at the first VPA whose
\* update fails: C7 tells it from UpdateVPAsLoop.
RECURSIVE UpdateVPAsLoopAborting(_, _, _, _, _)
UpdateVPAsLoopAborting(st, observed, i, recordFails, writeFails) ==
    IF i > Len(observed) THEN st
    ELSE IF observed[i] \in recordFails \cup writeFails
         THEN UpdateVPA(st, observed[i], recordFails, writeFails)
         ELSE UpdateVPAsLoopAborting(UpdateVPA(st, observed[i], recordFails, writeFails),
                                     observed, i + 1, recordFails, writeFails)

RECURSIVE UpdateVPAsLoop(_, _, _, _, _)
UpdateVPAsLoop(st, observed, i, recordFails, writeFails) ==
    IF i > Len(observed) THEN st
    ELSE UpdateVPAsLoop(UpdateVPA(st, observed[i], recordFails, writeFails),
                        observed, i + 1, recordFails, writeFails)

\* Variant of RunOnceSteps that updates the VPAs before it loads the
\* metrics: C8 tells it from RunOnceSteps.
RunOnceStepsUpdateFirst ==
    <<"ClusterLoadVPAs", "LoadVPAs", "LoadPods", "ObserveOOMs", "UpdateVPAs", "LoadMetrics">>

\* the steps of RunOnce, in the order it calls them
RunOnceSteps ==
    <<"ClusterLoadVPAs", "LoadVPAs", "LoadPods", "ObserveOOMs", "LoadMetrics", "UpdateVPAs">>

(***************************************************************************)
(* The recommender loop: main calls RunOnce on every tick.                 *)
(***************************************************************************)
\* a call made on the ExternalRecommendationsState through its API
Call(op, id) == [op |-> op, id |-> id]

Providers == {p \in [MetricNames -> UNION {MetricAnswers(m) : m \in MetricNames}] :
                 \A m \in MetricNames : p[m] \in MetricAnswers(m)}

\* the answers of the metrics API while the loop runs
LoopProviders ==
    {p \in Providers : p[MetricCPU] # Answer(10) /\ p[MetricMem] # Answer(30 * Mi)}

\* the defaults of the three enable flags of main
DefaultFlags ==
    [postProcessorCPUasInteger |-> FALSE,
     postProcessorMaintainResourceRatio |-> FALSE,
     postProcessorReplicaRestrictions |-> FALSE]

Init ==
    /\ flags = DefaultFlags
    /\ safetyMarginPct = 15
    /\ postProcessors = BuildPostProcessors(flags)
    /\ feed = EmptyMap
    /\ status = EmptyMap
    /\ provider = [m \in MetricNames |-> Err]
    /\ clusterVpas = EmptyMap
    /\ observedVpas = << >>
    /\ extVpas = EmptyMap
    /\ lastGC = 0
    /\ gcInterval = AggregateContainerStateGCInterval
    /\ now = StartTime
    /\ pc = 0
    /\ steps = << >>
    /\ applied = EmptyMap
    /\ processed = {}
    /\ failed = {}
    /\ lastGood = EmptyMap
    /\ engineOut = EmptyMap
    /\ lastCall = Call("NewExternalRecommendationsState", "")
    /\ InitNoPost

loopGhosts == <<steps, applied, processed, failed, engineOut>>

\* a VPA object is created, replaced or deleted
FeedEvent ==
    /\ pc = 0
    /\ \E id \in VpaIds :
          \/ /\ id \in DOMAIN feed
             /\ feed' = MapDel(feed, id)
             /\ status' = MapDel(status, id)
          \/ \E object \in FeedVpas(id) :
                /\ IF id \in DOMAIN feed THEN feed[id] # object ELSE TRUE
                /\ feed' = MapSet(feed, id, object)
                /\ status' = MapSet(status, id, << >>)
    /\ UNCHANGED <<configVars, provider, clusterVpas, observedVpas, extVpas, lastGC,
                   now, pc, loopGhosts, lastGood, lastCall>>

\* the external metrics API changes its answers
ProviderEvent ==
    /\ pc = 0
    /\ \E p \in LoopProviders : p # provider /\ provider' = p
    /\ UNCHANGED <<configVars, feed, status, clusterVpas, observedVpas, extVpas, lastGC,
                   now, pc, loopGhosts, lastGood, lastCall>>

\* the ticker of main fires and RunOnce starts
Tick ==
    /\ pc = 0
    /\ \E d \in 0..MaxTick : now + d <= LoopMaxTime /\ now' = now + d
    /\ pc' = 1
    /\ UNCHANGED <<configVars, feed, status, provider, clusterVpas, observedVpas,
                   extVpas, lastGC, loopGhosts, lastGood, lastCall>>

AtStep(name) == pc \in 1..Len(RunOnceSteps) /\ RunOnceSteps[pc] = name

StepDone(name) ==
    /\ pc' = pc + 1
    /\ steps' = Append(steps, name)

ObservationOrders(S) == {q \in [1..Cardinality(S) -> S] : \A x \in S : \E i \in DOMAIN q : q[i] = x}

\* r.clusterStateFeeder.LoadVPAs()
StepClusterLoadVPAs ==
    /\ AtStep("ClusterLoadVPAs")
    /\ clusterVpas' = ClusterLoadVPAs(clusterVpas, feed, status)
    /\ \E order \in ObservationOrders(DOMAIN feed) : observedVpas' = order
    /\ StepDone("ClusterLoadVPAs")
    /\ UNCHANGED <<configVars, feed, status, provider, extVpas, lastGC, now, applied,
                   processed, failed, engineOut, lastGood, lastCall>>

\* r.externalRecommendationsStateFeeder.LoadVPAs()
StepLoadVPAs ==
    /\ AtStep("LoadVPAs")
    /\ extVpas' = LoadVPAs(extVpas, clusterVpas)
    /\ StepDone("LoadVPAs")
    /\ UNCHANGED <<configVars, feed, status, provider, clusterVpas, observedVpas, lastGC,
                   now, applied, processed, failed, engineOut, lastGood, lastCall>>

\* r.clusterStateFeeder.LoadPods()
StepLoadPods ==
    /\ AtStep("LoadPods")
    /\ clusterVpas' = ClusterLoadPods(clusterVpas)
    /\ StepDone("LoadPods")
    /\ UNCHANGED <<configVars, feed, status, provider, observedVpas, extVpas, lastGC,
                   now, applied, processed, failed, engineOut, lastGood, lastCall>>

\* r.clusterStateFeeder.ObserveOOMs(r.ObserverOOM): ObserverOOM only logs
StepObserveOOMs ==
    /\ AtStep("ObserveOOMs")
    /\ StepDone("ObserveOOMs")
    /\ UNCHANGED <<configVars, feed, status, provider, clusterVpas, observedVpas, extVpas,
                   lastGC, now, applied, processed, failed, engineOut, lastGood, lastCall>>

\* the values fetched by this LoadMetrics, by VPA, container and resource
FetchedNow ==
    LET keys == {k \in (DOMAIN clusterVpas) \X ContainerNames \X ResourceNames :
                    LET metrics == GetVpaExternalMetrics(clusterVpas[k[1]])
                    IN /\ k[2] \in DOMAIN metrics
                       /\ k[3] \in DOMAIN metrics[k[2]]
                       /\ provider[metrics[k[2]][k[3]]].ok}
    IN [k \in keys |->
           provider[GetVpaExternalMetrics(clusterVpas[k[1]])[k[2]][k[3]]].value]

\* r.externalRecommendationsStateFeeder.LoadMetrics()
StepLoadMetrics ==
    /\ AtStep("LoadMetrics")
    /\ extVpas' = LoadMetrics(extVpas, clusterVpas, provider, now)
    /\ lastGood' = [k \in {x \in DOMAIN lastGood : x[1] \in DOMAIN clusterVpas}
                              \cup (DOMAIN FetchedNow) |->
                       IF k \in DOMAIN FetchedNow THEN FetchedNow[k] ELSE lastGood[k]]
    /\ StepDone("LoadMetrics")
    /\ UNCHANGED <<configVars, feed, status, provider, clusterVpas, observedVpas, lastGC,
                   now, applied, processed, failed, engineOut, lastCall>>

\* r.UpdateVPAs()
StepUpdateVPAs ==
    /\ AtStep("UpdateVPAs")
    /\ \E recordFails \in SUBSET (DOMAIN clusterVpas), writeFails \in SUBSET (DOMAIN clusterVpas) :
          LET st0 == [cluster |-> clusterVpas, ext |-> extVpas, status |-> status,
                      chain |-> postProcessors, marginPct |-> safetyMarginPct,
                      applied |-> applied, engineOut |-> engineOut,
                      processed |-> processed, failed |-> failed]
              st == UpdateVPAsLoop(st0, observedVpas, 1, recordFails, writeFails)
          IN /\ clusterVpas' = st.cluster
             /\ extVpas' = st.ext
             /\ status' = st.status
             /\ applied' = st.applied
             /\ engineOut' = st.engineOut
             /\ processed' = st.processed
             /\ failed' = st.failed
    /\ StepDone("UpdateVPAs")
    /\ UNCHANGED <<configVars, feed, provider, observedVpas, lastGC, now, lastGood, lastCall>>

RunOnce ==
    \/ StepClusterLoadVPAs
    \/ StepLoadVPAs
    \/ StepLoadPods
    \/ StepObserveOOMs
    \/ StepLoadMetrics
    \/ StepUpdateVPAs

\* RunOnce returns to the loop of main
Return ==
    /\ pc = Len(RunOnceSteps) + 1
    /\ pc' = 0
    /\ steps' = << >>
    /\ applied' = EmptyMap
    /\ processed' = {}
    /\ failed' = {}
    /\ engineOut' = EmptyMap
    /\ UNCHANGED <<configVars, feed, status, provider, clusterVpas, observedVpas,
                   extVpas, lastGC, now, lastGood, lastCall>>

Next == FeedEvent \/ ProviderEvent \/ Tick \/ RunOnce \/ Return

Spec == Init /\ [][Next]_vars

(***************************************************************************)
(* UpdateVPAs on its own: the state UpdateVPAs starts from is the one the  *)
(* first five steps of RunOnce leave, for any setting of the flags, any    *)
(* VPA objects and any answers of the metrics API.                         *)
(***************************************************************************)
UpdateFeeds ==
    UNION {[ids -> [created : {0}, shape : VpaShapeNames]] : ids \in SUBSET VpaIds}

UpdateMargins == {0, 15}

InitUpdate ==
    /\ flags \in FlagSets
    /\ safetyMarginPct \in UpdateMargins
    /\ postProcessors = BuildPostProcessors(flags)
    /\ feed \in UpdateFeeds
    /\ status = [id \in DOMAIN feed |-> << >>]
    /\ provider \in Providers
    /\ clusterVpas = ClusterLoadPods(ClusterLoadVPAs(EmptyMap, feed, status))
    /\ observedVpas \in ObservationOrders(DOMAIN feed)
    /\ now = StartTime
    /\ extVpas = LoadMetrics(LoadVPAs(EmptyMap, clusterVpas), clusterVpas, provider, now)
    /\ lastGC = 0
    /\ gcInterval = AggregateContainerStateGCInterval
    /\ pc = Len(RunOnceSteps)
    /\ steps = SubSeq(RunOnceSteps, 1, Len(RunOnceSteps) - 1)
    /\ applied = EmptyMap
    /\ processed = {}
    /\ failed = {}
    /\ lastGood = EmptyMap
    /\ engineOut = EmptyMap
    /\ lastCall = Call("NewExternalRecommendationsState", "")
    /\ InitNoPost

NextUpdate == StepUpdateVPAs

SpecUpdate == InitUpdate /\ [][NextUpdate]_vars

(***************************************************************************)
(* The ExternalRecommendationsState on its own: any caller, any order of   *)
(* calls, while the wall clock advances.                                   *)
(***************************************************************************)
\* the creation times of the VPA objects handed to AddOrUpdateVpa
GCCreations == {0, StartTime}

GCContainers(id) == IF id = "v1" THEN {"c1", "c2"} ELSE {"c1"}

GCRecommendation == [r \in {ResourceCPU} |-> 100]

loopVars == <<configVars, feed, status, provider, clusterVpas, observedVpas, pc,
              loopGhosts, lastGood>>

InitGC ==
    /\ flags = DefaultFlags
    /\ safetyMarginPct = 15
    /\ postProcessors = BuildPostProcessors(flags)
    /\ feed = EmptyMap
    /\ status = EmptyMap
    /\ provider = [m \in MetricNames |-> Err]
    /\ clusterVpas = EmptyMap
    /\ observedVpas = << >>
    /\ extVpas = EmptyMap
    /\ lastGC = 0
    /\ gcInterval \in 1..AggregateContainerStateGCInterval
    /\ now = StartTime
    /\ pc = 0
    /\ steps = << >>
    /\ applied = EmptyMap
    /\ processed = {}
    /\ failed = {}
    /\ lastGood = EmptyMap
    /\ engineOut = EmptyMap
    /\ lastCall = Call("NewExternalRecommendationsState", "")
    /\ InitNoPost

CallAddOrUpdateVpa ==
    /\ \E id \in VpaIds, created \in GCCreations :
          /\ created <= now
          /\ extVpas' = AddOrUpdateVpa(extVpas, [ID |-> id, Created |-> created])
          /\ lastCall' = Call("AddOrUpdateVpa", id)
    /\ UNCHANGED <<loopVars, lastGC, gcInterval, now>>

CallAddContainerRecommendation ==
    /\ \E id \in VpaIds :
          \E containerName \in GCContainers(id) :
             /\ extVpas' = AddContainerRecommendation(extVpas, id, containerName,
                                                      GCRecommendation, now)
             /\ lastCall' = Call("AddContainerRecommendation", id)
    /\ UNCHANGED <<loopVars, lastGC, gcInterval, now>>

CallDeleteVpa ==
    /\ \E id \in VpaIds :
          /\ extVpas' = DeleteVpa(extVpas, id)
          /\ lastCall' = Call("DeleteVpa", id)
    /\ UNCHANGED <<loopVars, lastGC, gcInterval, now>>

CallGarbageCollect ==
    /\ extVpas' = GarbageCollect(extVpas, now)
    /\ lastCall' = Call("GarbageCollect", "")
    /\ UNCHANGED <<loopVars, lastGC, gcInterval, now>>

CallRateLimitedGarbageCollect ==
    /\ LET s == RateLimitedGarbageCollect(
                    [Vpas |-> extVpas, lastGC |-> lastGC, gcInterval |-> gcInterval], now)
       IN /\ extVpas' = s.Vpas
          /\ lastGC' = s.lastGC
    /\ lastCall' = Call("RateLimitedGarbageCollect", "")
    /\ UNCHANGED <<loopVars, gcInterval, now>>

\* the wall clock advances between two calls
TimePasses ==
    /\ \E d \in 1..MaxTick : now + d <= MaxTime /\ now' = now + d
    /\ lastCall' = Call("time.Now", "")
    /\ UNCHANGED <<loopVars, extVpas, lastGC, gcInterval>>

NextGC ==
    \/ CallAddOrUpdateVpa
    \/ CallAddContainerRecommendation
    \/ CallDeleteVpa
    \/ CallGarbageCollect
    \/ CallRateLimitedGarbageCollect
    \/ TimePasses

SpecGC == InitGC /\ [][NextGC]_vars

(***************************************************************************)
(* The post-processors called on a VPA and a recommendation: a VPA with a  *)
(* replicaRestrictedRange annotation, with safetyMarginModifier            *)
(* annotations or with resourceRatios annotations, and a recommendation    *)
(* for the container c1, or for c1 and c2, of a pod template that requests *)
(* PostRequest of each resource.  A chain, once called, is called again    *)
(* on what it returned.                                                    *)
(***************************************************************************)
PostLow == 2
PostHigh == 3
PostLeast == 2
PostRequest == 5
PostMost == 10
PostAmounts == {PostLeast, PostRequest, PostMost}
MaxPostCalls == 2

PostUpdateModes == {"Off", "Trigger", "Auto", NoUpdateMode}

PostRanges ==
    {NoRange, MalformedRange, RangeAnnotation(<<PostLow>>),
     RangeAnnotation(<<PostLow, PostHigh>>), RangeAnnotation(<<PostHigh, PostLow>>),
     RangeAnnotation(<<PostHigh, PostHigh>>)}

\* the values of a safetyMarginModifier annotation: text that is not JSON,
\* a function name that is not known, a linear function with two
\* parameters, a linear function of slope 2, an affine function for both
\* resources
MalformedModifier == [json |-> FALSE, modifier |-> EmptyMap]

ModifierFor(resources, function, parameters) == [json |-> TRUE, modifier |-> [r \in resources |-> [Function |-> function, Parameters |-> parameters]]]

LinearModifier == ModifierFor({ResourceCPU}, "linear", <<200>>)

PostModifiers ==
    {MalformedModifier,
     ModifierFor({ResourceCPU}, "quadratic", <<200>>),
     ModifierFor({ResourceCPU}, "linear", <<200, 100>>),
     LinearModifier,
     ModifierFor({"*"}, "affine", <<1000, 100>>)}

\* the values of a resourceRatios annotation: text that is not JSON, and
\* the JSON objects that give each resource of targets its target, all in
\* the ratio of the pod template or all in a given ratio
MalformedRatios == [json |-> FALSE, ratioDef |-> EmptyMap]

RatiosFor(targets, explicit, ratio) == [json |-> TRUE, ratioDef |-> [r \in DOMAIN targets |-> [Resource |-> targets[r], explicit |-> explicit, Ratio |-> ratio]]]

\* the graphs of the annotations: original -> target
MemoryAfterCPU == [r \in {ResourceCPU} |-> ResourceMemory]
RatioChain == [r \in {ResourceCPU, ResourceMemory} |-> IF r = ResourceCPU THEN ResourceMemory ELSE ResourceStorage]
RatioFork == [r \in {ResourceCPU, ResourceStorage} |-> IF r = ResourceCPU THEN ResourceMemory ELSE ResourceCPU]
RatioSelfEdge == [r \in {ResourceCPU} |-> ResourceCPU]
RatioCycle2 == [r \in ResourceNames |-> IF r = ResourceCPU THEN ResourceMemory ELSE ResourceCPU]
RatioCycle3 == [r \in RatioResourceNames |-> IF r = ResourceCPU THEN ResourceMemory ELSE IF r = ResourceMemory THEN ResourceStorage ELSE ResourceCPU]
RatioTwoPredecessors == [r \in {ResourceCPU, ResourceStorage} |-> ResourceMemory]

ValidRatioGraphs == {MemoryAfterCPU, RatioChain, RatioFork}
InvalidRatioGraphs == {RatioSelfEdge, RatioCycle2, RatioCycle3, RatioTwoPredecessors}

PostRatios ==
    {MalformedRatios}
    \cup {RatiosFor(g, explicit, IF explicit THEN 1000 ELSE 0) :
             g \in ValidRatioGraphs \cup InvalidRatioGraphs, explicit \in BOOLEAN}

\* the orders a range over the nodes of a ratio graph can take
MapOrders == {o \in [1..3 -> RatioResourceNames] : {o[i] : i \in 1..3} = RatioResourceNames}

PostVpa(range, mode, podCount, modifiers, ratios) ==
    [ReplicaRange |-> range, UpdateMode |-> mode, PodCount |-> podCount,
     SafetyMarginModifiers |-> modifiers, ResourceRatios |-> ratios,
     Requests |-> [c \in {"c1", "c2"} |-> [r \in ResourceNames |-> PostRequest]],
     IntegerCPU |-> {"c1"}, MaxAllowed |-> EmptyMap]

PostVpas ==
    {PostVpa(range, mode, podCount, EmptyMap, EmptyMap) :
        range \in PostRanges, mode \in PostUpdateModes, podCount \in 1..(PostHigh + 1)}
    \cup {PostVpa(NoRange, "Off", 1, [c \in {"c1"} |-> m], EmptyMap) : m \in PostModifiers}
    \cup {PostVpa(NoRange, "Off", 1,
                  [c \in {"c1", "c2"} |-> IF c = "c1" THEN m ELSE LinearModifier],
                  EmptyMap) : m \in PostModifiers}
    \cup {PostVpa(NoRange, "Off", 1, EmptyMap, [c \in {"c1"} |-> q]) : q \in PostRatios}

\* a container recommendation: the bounds are the target, or the least and
\* the greatest amount; the pod template has the containers c1 and c2 and
\* no container c3
PostContainerRecommendation(name, target, tight) ==
    [ContainerName |-> name, Target |-> target,
     LowerBound |-> IF tight THEN target ELSE [r \in DOMAIN target |-> PostLeast],
     UpperBound |-> IF tight THEN target ELSE [r \in DOMAIN target |-> PostMost],
     UncappedTarget |-> target]

PostRecommendations ==
    {NilRecommendation}
    \cup {PodRecommendation(<<PostContainerRecommendation("c1", target, tight)>>) :
             target \in [ResourceNames -> PostAmounts], tight \in BOOLEAN}
    \cup {PodRecommendation(<<PostContainerRecommendation("c1", [r \in ResourceNames |-> a], TRUE),
                              PostContainerRecommendation("c2", [r \in ResourceNames |-> a], TRUE)>>) :
             a \in PostAmounts}
    \cup {PodRecommendation(<<PostContainerRecommendation("c1", [r \in ResourceNames |-> a], TRUE),
                              PostContainerRecommendation("c3", [r \in ResourceNames |-> a], TRUE)>>) :
             a \in PostAmounts}

\* the chains main builds, and chains with the safety-margin modifier and
\* the resource-ratio enforcer in front
PostChains ==
    {BuildPostProcessors(fl) : fl \in FlagSets}
    \cup {<<SafetyMarginModifierPostProcessor, CappingPostProcessor>>,
          <<ResourceRatioRecommendationPostProcessor, CappingPostProcessor>>,
          <<SafetyMarginModifierPostProcessor, ResourceRatioRecommendationPostProcessor,
            ReplicaRestrictionsPostProcessor, IntegerCPUPostProcessor,
            CappingPostProcessor>>}

PostProcessorsWithSource ==
    {SafetyMarginModifierPostProcessor, ResourceRatioRecommendationPostProcessor,
     ReplicaRestrictionsPostProcessor}

InitPost ==
    /\ flags = DefaultFlags
    /\ safetyMarginPct = 15
    /\ postProcessors = BuildPostProcessors(flags)
    /\ feed = EmptyMap
    /\ status = EmptyMap
    /\ provider = [m \in MetricNames |-> Err]
    /\ clusterVpas = EmptyMap
    /\ observedVpas = << >>
    /\ extVpas = EmptyMap
    /\ lastGC = 0
    /\ gcInterval = AggregateContainerStateGCInterval
    /\ now = StartTime
    /\ pc = 0
    /\ steps = << >>
    /\ applied = EmptyMap
    /\ processed = {}
    /\ failed = {}
    /\ lastGood = EmptyMap
    /\ engineOut = EmptyMap
    /\ lastCall = Call("NewExternalRecommendationsState", "")
    /\ postVpa \in PostVpas
    /\ postRecommendation \in PostRecommendations
    /\ postCalls = << >>
    /\ mapOrder \in IF postVpa.ResourceRatios = EmptyMap
                    THEN {<<ResourceCPU, ResourceMemory, ResourceStorage>>}
                    ELSE MapOrders
    /\ InitNoSource
    /\ InitNoFilter

\* what a call leaves alone
nonPostVars == <<flags, safetyMarginPct, postProcessors, gcInterval, feed, status, provider,
                 clusterVpas, observedVpas, extVpas, lastGC, now, pc, loopGhosts,
                 lastGood, lastCall>>

\* the calls of chain on postRecommendation: the record of the call is
\* [chain, input, result]
CallOf(chain) ==
    LET result == ApplyPostProcessorCalls(chain, 1, postVpa, postRecommendation)
    IN /\ postCalls' = Append(postCalls, [chain |-> chain, input |-> postRecommendation,
                                         result |-> result])
       /\ postRecommendation' = result.recommendation
       /\ UNCHANGED <<postVpa, mapOrder, nonPostVars, sourceVars, filterVars>>

\* one post-processor is called on a recommendation
CallProcess ==
    /\ postCalls = << >>
    /\ \E postProcessor \in PostProcessorsWithSource : CallOf(<<postProcessor>>)

\* UpdateVPAs runs its chain on a recommendation
CallPostProcessors ==
    /\ postCalls = << >>
    /\ ~postRecommendation.nil
    /\ \E chain \in PostChains : CallOf(chain)

\* the chain runs again, on what it returned
CallPostProcessorsAgain ==
    /\ postCalls # << >>
    /\ Len(postCalls) < MaxPostCalls
    /\ postCalls[Len(postCalls)].chain \in PostChains
    /\ ~postCalls[Len(postCalls)].result.panicked
    /\ CallOf(postCalls[Len(postCalls)].chain)

NextPost == CallProcess \/ CallPostProcessors \/ CallPostProcessorsAgain

SpecPost == InitPost /\ [][NextPost]_vars

(***************************************************************************)
(* Properties of the chain and of the loop.                                *)
(***************************************************************************)
StepsDone == {steps[i] : i \in DOMAIN steps}

\* UpdateVPAs has run and RunOnce has not returned yet
IterationDone == pc = Len(RunOnceSteps) + 1

\* C1: whatever the enable flags, the chain main builds holds the capping
\* post-processor exactly once and as its last element; UpdateVPAs runs the
\* post-processors of the chain in the order of the chain on every VPA it
\* processes, so capping is the last one applied.
C1_CappingIsLast ==
    /\ \A fl \in FlagSets :
          LET chain == BuildPostProcessors(fl)
          IN /\ Len(chain) >= 1
             /\ chain[Len(chain)] = CappingPostProcessor
             /\ Cardinality({i \in DOMAIN chain : chain[i] = CappingPostProcessor}) = 1
    /\ postProcessors = BuildPostProcessors(flags)
    /\ \A v \in DOMAIN applied :
          /\ applied[v] = postProcessors
          /\ applied[v][Len(applied[v])] = CappingPostProcessor
    /\ IterationDone => \A v \in processed : v \in DOMAIN applied

\* UpdateVPAs has run a chain of three post-processors on two VPAs that
\* have a recommendation.
C1_Witness ==
    /\ IterationDone
    /\ Len(postProcessors) = 3
    /\ processed = VpaIds
    /\ \A v \in processed :
          /\ Len(applied[v]) = 3
          /\ clusterVpas[v].Recommendation # << >>

\* C2: once the LoadVPAs of the external state has run in an iteration, the
\* ids the ExternalRecommendationsState holds are the ids of the cluster
\* state, the feed of LoadVPAs: every VPA of it has an entry, under its own
\* id, and a VPA absent from it has none.
C2_SameVpaIds ==
    "LoadVPAs" \in StepsDone =>
        /\ DOMAIN extVpas = DOMAIN clusterVpas
        /\ \A v \in DOMAIN extVpas : extVpas[v].ID = clusterVpas[v].ID

\* LoadVPAs has just run; one VPA of the feed has its entry and a VPA whose
\* metrics an earlier iteration loaded is gone from the state.
C2_Witness ==
    /\ pc = 3
    /\ DOMAIN extVpas # {}
    /\ \E k \in DOMAIN lastGood : k[1] \notin DOMAIN extVpas

\* the metric the annotations of the VPA name for the resource of the container
MetricOf(k) == GetVpaExternalMetrics(clusterVpas[k[1]])[k[2]][k[3]]

\* the fetch of a resource that was loaded before fails in this iteration
FetchFailsNow(k) ==
    /\ k[1] \in DOMAIN clusterVpas
    /\ k[2] \in DOMAIN GetVpaExternalMetrics(clusterVpas[k[1]])
    /\ k[3] \in DOMAIN GetVpaExternalMetrics(clusterVpas[k[1]])[k[2]]
    /\ ~provider[MetricOf(k)].ok

\* C3: when LoadMetrics has run and the fetch of a resource failed, the state
\* UpdateVPAs starts from still holds, for that container and resource, the
\* value that was last fetched.
C3_StaleDataKept ==
    (pc = 6 /\ "LoadMetrics" \in StepsDone) =>
        \A k \in DOMAIN lastGood :
            FetchFailsNow(k) =>
                /\ k[1] \in DOMAIN extVpas
                /\ k[2] \in DOMAIN extVpas[k[1]].Containers
                /\ k[3] \in DOMAIN extVpas[k[1]].Containers[k[2]].RawRecommendation
                /\ extVpas[k[1]].Containers[k[2]].RawRecommendation[k[3]] = lastGood[k]

\* C4: an iteration that ends gcInterval or more after the last garbage
\* collection has collected garbage, so when an iteration is done the last
\* collection is less than gcInterval old.
C4_IterationCollectsGarbage ==
    IterationDone => now - lastGC < gcInterval

\* C7: whatever VPAs the recording of the recommendation or the write of the
\* status fails for, UpdateVPAs processes every observed VPA that both
\* states know, and the recommendation of each is the one its own state
\* gives, failures or not.
C7_FailuresAreIsolated ==
    IterationDone =>
        /\ processed = (DOMAIN clusterVpas) \cap (DOMAIN extVpas)
        /\ \A v \in processed :
              /\ v \in DOMAIN engineOut
              /\ clusterVpas[v].Recommendation =
                    ApplyPostProcessors(postProcessors, 1, clusterVpas[v],
                        MapToListOfRecommendedContainerResources(engineOut[v]), << >>).recommendation
              /\ v \notin failed => status[v] = clusterVpas[v].Recommendation

\* the update of the first observed VPA failed and the second one was
\* processed and written
C7_Witness ==
    /\ IterationDone
    /\ Len(observedVpas) = 2
    /\ observedVpas[1] \in failed
    /\ observedVpas[2] \in processed \ failed
    /\ status[observedVpas[2]] # << >>

\* C8: the steps an iteration has run so far are the first steps of
\* LoadVPAs (cluster, then external state), LoadPods, ObserveOOMs,
\* LoadMetrics, UpdateVPAs, in that order, each run once; no VPA is
\* processed before LoadVPAs and LoadMetrics are done.
C8_StrictOrder ==
    LET order == <<"ClusterLoadVPAs", "LoadVPAs", "LoadPods", "ObserveOOMs",
                   "LoadMetrics", "UpdateVPAs">>
    IN /\ Len(steps) <= Len(order)
       /\ \A i \in DOMAIN steps : steps[i] = order[i]
       /\ pc # 0 => Len(steps) = pc - 1
       /\ processed # {} => {"LoadVPAs", "LoadMetrics"} \subseteq StepsDone
       /\ "LoadMetrics" \in StepsDone => "LoadVPAs" \in StepsDone

\* an iteration has processed a VPA
C8_Witness ==
    /\ IterationDone
    /\ processed # {}
    /\ Len(steps) = 6

(***************************************************************************)
(* Properties of the recommendation engine.                                *)
(***************************************************************************)
\* the raw recommendation LoadMetrics stored for the container of the VPA
RawOf(v, c) == FetchedRecommendation(GetVpaExternalMetrics(clusterVpas[v])[c], provider)

\* the containers of the VPA the recommender is made with
RawContainers(v) ==
    {c \in DOMAIN GetVpaExternalMetrics(clusterVpas[v]) :
        /\ c \notin VpaShape(clusterVpas[v].Shape).ModeOff
        /\ DOMAIN RawOf(v, c) # {}}

\* the minimum of a resource for one container of the VPA
FloorOf(v, r) == minResources(Cardinality(RawContainers(v)))[r]

BoundsAreTarget(v) ==
    \A c \in DOMAIN engineOut[v] :
        /\ engineOut[v][c].LowerBound = engineOut[v][c].Target
        /\ engineOut[v][c].UpperBound = engineOut[v][c].Target

\* C10 as stated: the recommender emits Target = LowerBound = UpperBound and,
\* for a resource whose raw value is not below the minimum, the raw value.
C10_TargetIsRaw ==
    IterationDone =>
        \A v \in DOMAIN engineOut :
            /\ BoundsAreTarget(v)
            /\ \A c \in DOMAIN engineOut[v] :
                  \A r \in DOMAIN engineOut[v][c].Target :
                      RawOf(v, c)[r] >= FloorOf(v, r) =>
                          engineOut[v][c].Target[r] = RawOf(v, c)[r]

\* C10: the recommender emits Target = LowerBound = UpperBound and, for a
\* resource whose raw value is not below the minimum, the raw value plus the
\* safety margin, which is the raw value scaled by SafetyMarginFraction.
C10_TargetIsRawPlusMargin ==
    IterationDone =>
        \A v \in DOMAIN engineOut :
            /\ BoundsAreTarget(v)
            /\ \A c \in DOMAIN engineOut[v] :
                  \A r \in DOMAIN engineOut[v][c].Target :
                      RawOf(v, c)[r] >= FloorOf(v, r) =>
                          engineOut[v][c].Target[r] =
                              RawOf(v, c)[r] + ScaleResource(RawOf(v, c)[r], safetyMarginPct)

\* a target above its raw value, which is not below the minimum
C10_Witness ==
    /\ IterationDone
    /\ \E v \in DOMAIN engineOut :
          \E c \in DOMAIN engineOut[v] :
             \E r \in DOMAIN engineOut[v][c].Target :
                /\ RawOf(v, c)[r] >= FloorOf(v, r)
                /\ engineOut[v][c].Target[r] > RawOf(v, c)[r]
                /\ engineOut[v][c].UpperBound[r] = engineOut[v][c].Target[r]

(***************************************************************************)
(* Properties of the ExternalRecommendationsState.                         *)
(***************************************************************************)
GarbageCollectCalls == {"GarbageCollect", "RateLimitedGarbageCollect"}

Age(t) == now - t

\* C5: a RateLimitedGarbageCollect made less than gcInterval after the last
\* collection changes neither the VPAs nor lastGC, and lastGC, the time of
\* the last collection, never moves by less than gcInterval.
C5_AtMostOncePerInterval ==
    [][/\ (lastCall'.op = "RateLimitedGarbageCollect" /\ Age(lastGC) < gcInterval) =>
             (extVpas' = extVpas /\ lastGC' = lastGC)
       /\ lastGC' # lastGC => lastGC' - lastGC >= gcInterval]_vars

\* a RateLimitedGarbageCollect was made less than gcInterval after a
\* collection and left a container recommendation older than the threshold
C5_Witness ==
    /\ lastCall.op = "RateLimitedGarbageCollect"
    /\ lastGC > 0
    /\ Age(lastGC) > 0
    /\ Age(lastGC) < gcInterval
    /\ \E v \in DOMAIN extVpas :
          \E c \in DOMAIN extVpas[v].Containers :
             Age(extVpas[v].Containers[c].time) > ObsoleteRecommendationThreshold

\* C6: a garbage collection removes a VPA only if the VPA is older than the
\* threshold and so is each of its container recommendations, and removes a
\* container recommendation only if it is older than the threshold.
C6_EvictsOnlyOlderThanThreshold ==
    [][lastCall'.op \in GarbageCollectCalls =>
          \A v \in DOMAIN extVpas :
              IF v \notin DOMAIN extVpas'
              THEN /\ Age(extVpas[v].Created) > ObsoleteRecommendationThreshold
                   /\ \A c \in DOMAIN extVpas[v].Containers :
                         Age(extVpas[v].Containers[c].time) > ObsoleteRecommendationThreshold
              ELSE \A c \in (DOMAIN extVpas[v].Containers) \ (DOMAIN extVpas'[v].Containers) :
                         Age(extVpas[v].Containers[c].time) > ObsoleteRecommendationThreshold]_vars

\* C9: from any state and for any VPA, AddOrUpdateVpa called a second time
\* with the same VPA leaves the state the first call left.
C9_AddOrUpdateVpaIdempotent ==
    \A id \in VpaIds, created \in GCCreations :
        LET vpa == [ID |-> id, Created |-> created]
            once == AddOrUpdateVpa(extVpas, vpa)
        IN AddOrUpdateVpa(once, vpa) = once

\* AddOrUpdateVpa was called for a VPA while the state holds a VPA with a
\* container recommendation
C9_Witness ==
    /\ lastCall.op = "AddOrUpdateVpa"
    /\ lastCall.id \in DOMAIN extVpas
    /\ \E v \in DOMAIN extVpas : DOMAIN extVpas[v].Containers # {}

(***************************************************************************)
(* Properties of the minimum and of missing resources.                     *)
(***************************************************************************)
\* the containers of the pods of the VPA that are autoscaled
PodContainersOf(v) == DOMAIN GetContainerNameToAggregateStateMap(clusterVpas[v])

\* the pod minimum of the resource divided by the number of containers of the pod
PodShare(v, r) == minResources(Cardinality(PodContainersOf(v)))[r]

\* the raw value of the resource with the safety margin added
Computed(v, c, r) == RawOf(v, c)[r] + ScaleResource(RawOf(v, c)[r], safetyMarginPct)

\* C11: every emitted amount is the larger of the computed value and the
\* pod minimum divided by the number of containers of the pod.
C11_FloorIsPodShare ==
    IterationDone =>
        \A v \in DOMAIN engineOut :
            \A c \in DOMAIN engineOut[v] :
                \A r \in DOMAIN engineOut[v][c].Target :
                    engineOut[v][c].Target[r] = Max(PodShare(v, r), Computed(v, c, r))

\* the external source yields a value for the resource of the container
HasValue(v, c, r) ==
    LET metrics == VpaShape(clusterVpas[v].Shape).Metrics
    IN /\ c \in DOMAIN metrics
       /\ r \in DOMAIN metrics[c]
       /\ provider[metrics[c][r]].ok

\* C12: a resource of a container for which the external source yields no
\* value, its metric not configured or its fetch failed, has an entry
\* neither in the stored raw recommendation nor in the Target, LowerBound or
\* UpperBound the recommender emits.
C12_MissingResourcesOmitted ==
    /\ \A v \in DOMAIN extVpas :
          \A c \in DOMAIN extVpas[v].Containers :
             \A r \in DOMAIN extVpas[v].Containers[c].RawRecommendation : HasValue(v, c, r)
    /\ \A v \in DOMAIN engineOut :
          \A c \in DOMAIN engineOut[v] :
             \A r \in (DOMAIN engineOut[v][c].Target) \cup (DOMAIN engineOut[v][c].LowerBound)
                       \cup (DOMAIN engineOut[v][c].UpperBound) : HasValue(v, c, r)

\* the recommender emitted a recommendation for a container that lacks a
\* resource whose metric is configured, controlled and whose fetch failed
C12_Witness ==
    /\ IterationDone
    /\ \E v \in DOMAIN engineOut :
          \E c \in DOMAIN engineOut[v] :
             \E r \in ResourceNames :
                /\ r \in DOMAIN VpaShape(clusterVpas[v].Shape).Metrics[c]
                /\ r \in GetContainerNameToAggregateStateMap(clusterVpas[v])[c].ControlledResources
                /\ ~HasValue(v, c, r)
                /\ r \notin DOMAIN engineOut[v][c].Target
                /\ r \notin DOMAIN extVpas[v].Containers[c].RawRecommendation
                /\ DOMAIN engineOut[v][c].Target # {}


(***************************************************************************)
(* The post-processors.                                                    *)
(***************************************************************************)
\* the last call made
LastPostCall == postCalls[Len(postCalls)]

\* the last call made was one call of postProcessor on a recommendation
\* that is not nil, and it returned
Called(postProcessor) ==
    IF postCalls = << >> THEN FALSE
    ELSE /\ LastPostCall.chain = <<postProcessor>>
         /\ ~LastPostCall.input.nil
         /\ ~LastPostCall.result.panicked

PostInput == LastPostCall.input.ContainerRecommendations
PostOutput == LastPostCall.result.recommendation.ContainerRecommendations

\* the replica-restrictions guard is active: the annotation is a band
\* [low, high] with low < high and the update mode is Off or Trigger
GuardActive ==
    /\ postVpa.ReplicaRange = RangeAnnotation(<<PostLow, PostHigh>>)
    /\ postVpa.UpdateMode \in {"Off", "Trigger"}

PostRequestOf(i, r) == postVpa.Requests[PostInput[i].ContainerName][r]

\* the containers of the input that the pod template has, by position
PostTemplateContainers ==
    {i \in 1..Len(PostInput) : PostInput[i].ContainerName \in DOMAIN postVpa.Requests}

\* the entry of the output for the container at position i of the input
PostOutputOf(i) ==
    LET k == CHOOSE j \in 1..Len(PostOutput) :
                 PostOutput[j].ContainerName = PostInput[i].ContainerName
    IN PostOutput[k]

\* With an active guard, a Target that moves resources in one direction only
\* is reverted or kept by the band: a raised resource is reverted when
\* replicas <= high, a lowered one when replicas >= low.
GuardThresholdsOneDirection ==
    (Called(ReplicaRestrictionsPostProcessor) /\ GuardActive) =>
        \A i \in PostTemplateContainers : \A r \in DOMAIN PostInput[i].Target :
            LET raised == PostInput[i].Target[r] > PostRequestOf(i, r)
                lowered == PostInput[i].Target[r] < PostRequestOf(i, r)
                oneDirection ==
                    ~(/\ \E x \in DOMAIN PostInput[i].Target :
                            PostInput[i].Target[x] > PostRequestOf(i, x)
                      /\ \E x \in DOMAIN PostInput[i].Target :
                            PostInput[i].Target[x] < PostRequestOf(i, x))
                blocked == \/ raised /\ postVpa.PodCount <= PostHigh
                           \/ lowered /\ postVpa.PodCount >= PostLow
            IN oneDirection =>
                   PostOutputOf(i).Target[r] =
                       IF blocked THEN PostRequestOf(i, r) ELSE PostInput[i].Target[r]

\* C13: with an active guard, a resource whose Target is above the current
\* request has its Target reverted to the request when replicas <= high and
\* left as recommended when replicas > high.
C13_UpscaleRevertedUpToHigh ==
    (Called(ReplicaRestrictionsPostProcessor) /\ GuardActive) =>
        \A i \in PostTemplateContainers : \A r \in DOMAIN PostInput[i].Target :
            PostInput[i].Target[r] > PostRequestOf(i, r) =>
                PostOutputOf(i).Target[r] =
                    IF postVpa.PodCount <= PostHigh THEN PostRequestOf(i, r)
                    ELSE PostInput[i].Target[r]

\* C14: with an active guard, a resource whose Target is below the current
\* request has its Target reverted to the request when replicas >= low and
\* left as recommended when replicas < low.
C14_DownscaleRevertedFromLow ==
    (Called(ReplicaRestrictionsPostProcessor) /\ GuardActive) =>
        \A i \in PostTemplateContainers : \A r \in DOMAIN PostInput[i].Target :
            PostInput[i].Target[r] < PostRequestOf(i, r) =>
                PostOutputOf(i).Target[r] =
                    IF postVpa.PodCount >= PostLow THEN PostRequestOf(i, r)
                    ELSE PostInput[i].Target[r]

\* the Target of container i raises a resource and lowers another
RaisesAndLowers(i) ==
    /\ \E r \in DOMAIN PostInput[i].Target : PostInput[i].Target[r] > PostRequestOf(i, r)
    /\ \E r \in DOMAIN PostInput[i].Target : PostInput[i].Target[r] < PostRequestOf(i, r)

\* C15: with an active guard, when the Target of a container raises one
\* resource and lowers another and the replica count blocks one direction
\* only, the resource of the blocked direction is set to the request and the
\* resource of the other direction keeps the recommended Target.
C15_RevertsBlockedResourceOnly ==
    (Called(ReplicaRestrictionsPostProcessor) /\ GuardActive) =>
        \A i \in PostTemplateContainers :
            (RaisesAndLowers(i) /\ (postVpa.PodCount < PostLow \/ postVpa.PodCount > PostHigh)) =>
                \A r \in DOMAIN PostInput[i].Target :
                    LET raised == PostInput[i].Target[r] > PostRequestOf(i, r)
                        lowered == PostInput[i].Target[r] < PostRequestOf(i, r)
                        blocked == \/ raised /\ postVpa.PodCount <= PostHigh
                                   \/ lowered /\ postVpa.PodCount >= PostLow
                    IN PostOutputOf(i).Target[r] =
                           IF blocked THEN PostRequestOf(i, r) ELSE PostInput[i].Target[r]

\* the replica-range annotation is there and is in error: its text is not
\* JSON, is not an array of two integers, or has low >= high
BadRange ==
    /\ postVpa.ReplicaRange.present
    /\ \/ ~postVpa.ReplicaRange.json
       \/ Len(postVpa.ReplicaRange.ints) # 2
       \/ postVpa.ReplicaRange.ints[1] >= postVpa.ReplicaRange.ints[2]

\* the last call made was one call of the replica-restrictions guard
GuardCalled ==
    IF postCalls = << >> THEN FALSE
    ELSE LastPostCall.chain = <<ReplicaRestrictionsPostProcessor>>

ValidRecommendation(list) ==
    \A i \in 1..Len(list) : \A r \in DOMAIN list[i].Target :
        /\ r \in DOMAIN list[i].LowerBound => list[i].LowerBound[r] <= list[i].Target[r]
        /\ r \in DOMAIN list[i].UpperBound => list[i].Target[r] <= list[i].UpperBound[r]

\* the post-processor turned a valid recommendation into what it returned
ValidityKeptBy(postProcessor) ==
    (Called(postProcessor) /\ ValidRecommendation(PostInput)) =>
        ValidRecommendation(PostOutput)

\* C17: the replica-restrictions guard, the resource-ratio enforcer and the
\* safety-margin modifier each return a valid recommendation when they are
\* given a valid one.
C17_ValidStaysValid ==
    /\ ValidityKeptBy(ReplicaRestrictionsPostProcessor)
    /\ ValidityKeptBy(ResourceRatioRecommendationPostProcessor)
    /\ ValidityKeptBy(SafetyMarginModifierPostProcessor)

\* a chain was called and then called again on what it returned
ChainCalledTwice ==
    /\ Len(postCalls) = 2
    /\ postCalls[1].chain \in PostChains
    /\ postCalls[2].chain = postCalls[1].chain
    /\ postCalls[2].input = postCalls[1].result.recommendation
    /\ ~postCalls[2].result.panicked

\* C18: the chain of post-processors run on its own output returns that
\* output: chain(chain(R)) = chain(R).
C18_ChainIsIdempotent ==
    ChainCalledTwice => postCalls[2].result.recommendation = postCalls[2].input

\* C19: no call of a post-processor panics, whatever the annotations, the
\* update mode and the recommendation: every call returns a recommendation.
C19_NoCallPanics ==
    \A i \in 1..Len(postCalls) : ~postCalls[i].result.panicked

\* the safety-margin annotation of the container is in error: its text is
\* not JSON, it names an unknown function, or it gives a function the wrong
\* number of parameters
ModifierInError(c) ==
    /\ c \in DOMAIN postVpa.SafetyMarginModifiers
    /\ LET annotation == postVpa.SafetyMarginModifiers[c]
       IN \/ ~annotation.json
          \/ \E k \in DOMAIN annotation.modifier :
                \/ modifierFunctionUnmarshalJSON(annotation.modifier[k].Function)
                \/ Len(annotation.modifier[k].Parameters)
                      # requiredParameters(annotation.modifier[k].Function)

\* the recommendation the linear modifier of slope 2 for CPU makes of one
LinearModified(cr) ==
    LET double(list) ==
            [r \in DOMAIN list |-> IF r = ResourceCPU THEN 2 * list[r] ELSE list[r]]
    IN [cr EXCEPT !.Target = double(@), !.LowerBound = double(@),
                  !.UpperBound = double(@), !.UncappedTarget = double(@)]

\* C20: when the safety-margin annotation of c1 is in error and c2 has a
\* valid one, the modifier leaves the recommendation of c1 as it is and
\* applies the modifier of c2 to the recommendation of c2.
C20_OnlyFailingContainerSkipped ==
    (/\ Called(SafetyMarginModifierPostProcessor)
     /\ Len(PostInput) = 2
     /\ ModifierInError("c1")
     /\ "c2" \in DOMAIN postVpa.SafetyMarginModifiers) =>
        /\ PostOutput[1] = PostInput[1]
        /\ PostOutput[2] = LinearModified(PostInput[2])

(***************************************************************************)
(* Properties of the resource-ratio enforcer.                              *)
(***************************************************************************)
\* the graph of the resourceRatios annotation of container c, original ->
\* target; the empty graph when there is no annotation or it is not JSON
RatioGraphOf(c) ==
    IF c \in DOMAIN postVpa.ResourceRatios /\ postVpa.ResourceRatios[c].json
    THEN [r \in DOMAIN postVpa.ResourceRatios[c].ratioDef |->
             postVpa.ResourceRatios[c].ratioDef[r].Resource]
    ELSE EmptyMap

\* following k edges or fewer, at least one, from resource n leads to resource m
RECURSIVE Leads(_, _, _, _)
Leads(g, n, m, k) ==
    /\ k > 0
    /\ n \in DOMAIN g
    /\ (g[n] = m \/ Leads(g, g[n], m, k - 1))

HasCycle(g) == \E n \in DOMAIN g : Leads(g, n, n, Cardinality(DOMAIN g))

HasTwoPredecessors(g) == \E a, b \in DOMAIN g : a # b /\ g[a] = g[b]

\* the container recommendations of name c in a list
Named(list, c) == SelectSeq(list, LAMBDA cr : cr.ContainerName = c)

C21_WitnessTwoPredecessors ==
    /\ Called(ResourceRatioRecommendationPostProcessor)
    /\ RatioGraphOf("c1") = RatioTwoPredecessors
    /\ postVpa.ResourceRatios["c1"].ratioDef[ResourceCPU].explicit
    /\ Named(PostInput, "c1") # << >>
    /\ Named(PostOutput, "c1") = Named(PostInput, "c1")

\* the edges of the annotation of container c: [original, target, explicit, ratio]
RatioEdgesOf(c) ==
    {[original |-> r, target |-> postVpa.ResourceRatios[c].ratioDef[r].Resource,
      explicit |-> postVpa.ResourceRatios[c].ratioDef[r].explicit,
      ratio |-> postVpa.ResourceRatios[c].ratioDef[r].Ratio] : r \in DOMAIN RatioGraphOf(c)}

\* the pod template of container c gives edge e no ratio: it requests none
\* of the original resource
WithoutRatio(c, e) == ~e.explicit /\ QuantityOf(postVpa.Requests[c], e.original) = 0

\* the milli-value of round-down(milli * ratio of e), the ratio being the
\* given one or target/original of the pod template of container c
TimesRatio(c, e, milli) ==
    IF e.explicit THEN milli * e.ratio
    ELSE LET qA == MilliValue(e.original, postVpa.Requests[c][e.original])
             qB == MilliValue(e.target, QuantityOf(postVpa.Requests[c], e.target))
         IN (milli \div qA) * qB + ((milli % qA) * qB) \div qA

\* in the resource list out, computed from in, edge e holds: the target is
\* the final value of the original times the ratio, or is the input's when
\* the edge has no ratio
EdgeHolds(c, e, in, out) ==
    IF WithoutRatio(c, e) THEN QuantityOf(out, e.target) = QuantityOf(in, e.target)
    ELSE /\ e.target \in DOMAIN out
         /\ out[e.target] = AmountOfMilli(e.target,
                TimesRatio(c, e, MilliValue(e.original, QuantityOf(out, e.original))))

\* the annotation of container c is a valid graph with an edge
ValidGraph(c) ==
    /\ RatioGraphOf(c) # EmptyMap
    /\ ~HasCycle(RatioGraphOf(c))
    /\ ~HasTwoPredecessors(RatioGraphOf(c))

InitNoLoop ==
    /\ flags = DefaultFlags
    /\ safetyMarginPct = 15
    /\ postProcessors = BuildPostProcessors(flags)
    /\ feed = EmptyMap
    /\ status = EmptyMap
    /\ provider = [m \in MetricNames |-> Err]
    /\ clusterVpas = EmptyMap
    /\ observedVpas = << >>
    /\ extVpas = EmptyMap
    /\ lastGC = 0
    /\ gcInterval = AggregateContainerStateGCInterval
    /\ now = StartTime
    /\ pc = 0
    /\ steps = << >>
    /\ applied = EmptyMap
    /\ processed = {}
    /\ failed = {}
    /\ lastGood = EmptyMap
    /\ engineOut = EmptyMap
    /\ lastCall = Call("NewExternalRecommendationsState", "")
    /\ postVpa = EmptyMap
    /\ postRecommendation = NilRecommendation
    /\ postCalls = << >>
    /\ mapOrder = <<ResourceCPU, ResourceMemory, ResourceStorage>>

\* options.PodNamespaceLabel, options.PodNameLabel, options.CtrNameLabel
PodNamespaceLabel == "PodNamespaceLabel"
PodNameLabel == "PodNameLabel"
CtrNameLabel == "CtrNameLabel"

\* the ContainerID of an ExternalMetricValue, << >> for nil
containerId(value) ==
    IF {PodNamespaceLabel, PodNameLabel, CtrNameLabel} \subseteq DOMAIN value.MetricLabels
    THEN <<[PodID |-> [Namespace |-> value.MetricLabels[PodNamespaceLabel],
                       PodName |-> value.MetricLabels[PodNameLabel]],
            ContainerName |-> value.MetricLabels[CtrNameLabel]]>>
    ELSE << >>

\* resourceMap[id.PodID][id.ContainerName][name] = val.Value: the write
\* panics when the map read is nil, that is when resourceMap has no entry
\* for the pod, or the pod's map none for the container
RECURSIVE addMetrics(_, _, _, _)
addMetrics(items, i, name, resourceMap) ==
    IF i > Len(items) THEN [panicked |-> FALSE, resourceMap |-> resourceMap]
    ELSE LET id == containerId(items[i])
         IN IF id = << >> THEN addMetrics(items, i + 1, name, resourceMap)
            ELSE IF id[1].PodID \notin DOMAIN resourceMap
                 THEN [panicked |-> TRUE, resourceMap |-> resourceMap]
            ELSE IF id[1].ContainerName \notin DOMAIN resourceMap[id[1].PodID]
                 THEN [panicked |-> TRUE, resourceMap |-> resourceMap]
            ELSE addMetrics(items, i + 1, name,
                     [resourceMap EXCEPT ![id[1].PodID][id[1].ContainerName] =
                         MapSet(@, name, items[i].Value)])

\* how a List call ends
ListPanicked == [panicked |-> TRUE, err |-> FALSE, Items |-> << >>]
ListFailed == [panicked |-> FALSE, err |-> TRUE, Items |-> << >>]
ListReturned(items) == [panicked |-> FALSE, err |-> FALSE, Items |-> items]

\* the loop of List over options.ResourceMetrics for one VPA, in the order
\* the range over the map takes, from the i-th resource on
RECURSIVE ExternalListResources(_, _, _, _, _)
ExternalListResources(vpa, order, i, workloadValues, selected) ==
    IF i > Len(order)
    THEN [panicked |-> FALSE, err |-> FALSE, workloadValues |-> workloadValues,
          selected |-> selected]
    ELSE LET m == vpa.answers[order[i]]
         IN IF m.err
            THEN [panicked |-> FALSE, err |-> TRUE, workloadValues |-> workloadValues,
                  selected |-> selected]
            ELSE IF m.Items = << >>
            THEN ExternalListResources(vpa, order, i + 1, workloadValues, selected)
            ELSE LET added == addMetrics(m.Items, 1, order[i], workloadValues)
                     timed == IF m.Items[1].Timestamp = 0 THEN selected
                              ELSE [Timestamp |-> m.Items[1].Timestamp,
                                    Window |-> IF m.Items[1].WindowSeconds = << >>
                                               THEN selected.Window
                                               ELSE m.Items[1].WindowSeconds[1]]
                 IN IF added.panicked
                    THEN [panicked |-> TRUE, err |-> FALSE,
                          workloadValues |-> workloadValues, selected |-> selected]
                    ELSE ExternalListResources(vpa, order, i + 1, added.resourceMap, timed)

\* the elements of a set in the order a range takes
RECURSIVE RangeOver(_)
RangeOver(S) ==
    IF S = {} THEN << >>
    ELSE LET x == CHOOSE y \in S : TRUE IN <<x>> \o RangeOver(S \ {x})

\* the PodMetrics List makes of workloadValues: Containers is made with
\* len(cmaps) empty elements and the containers are appended to it
ExternalPodMetrics(workloadValues, selected) ==
    LET pods == RangeOver(DOMAIN workloadValues)
    IN [k \in 1..Len(pods) |->
           LET cmaps == workloadValues[pods[k]]
               names == RangeOver(DOMAIN cmaps)
           IN [Name |-> pods[k].PodName, Namespace |-> pods[k].Namespace,
               Timestamp |-> selected.Timestamp, Window |-> selected.Window,
               Containers |-> [j \in 1..Len(names) |-> [Name |-> "", Usage |-> EmptyMap]]
                              \o [j \in 1..Len(names) |->
                                     [Name |-> names[j], Usage |-> cmaps[names[j]]]]]]

\* externalMetricsClient.List over clusterState.Vpas from the i-th VPA on
RECURSIVE ExternalList(_, _, _, _, _)
ExternalList(namespace, vpas, order, i, items) ==
    IF i > Len(vpas) THEN ListReturned(items)
    ELSE IF vpas[i].PodCount = 0 THEN ExternalList(namespace, vpas, order, i + 1, items)
    ELSE IF namespace # "" /\ vpas[i].Namespace # namespace
         THEN ExternalList(namespace, vpas, order, i + 1, items)
    ELSE LET r == ExternalListResources(vpas[i], order, 1, EmptyMap,
                                        [Timestamp |-> 0, Window |-> 0])
         IN IF r.err THEN ListFailed
            ELSE IF r.panicked THEN ListPanicked
            ELSE ExternalList(namespace, vpas, order, i + 1,
                              items \o ExternalPodMetrics(r.workloadValues, r.selected))

(***************************************************************************)
(* The Datadog source.  A series is [TagSet, Pointlist], TagSet a function *)
(* from tag keys to values and a row of Pointlist [complete, value],       *)
(* complete telling that the row has a timestamp and a value; the unit of  *)
(* a series has no scale factor.                                           *)
(***************************************************************************)
timeShift == 120

\* tag value -> the series that carry it, a series without the tag under
\* emptyTag
classifyByTag(values, tagKey, emptyTag) ==
    LET valueOf(s) == IF tagKey \in DOMAIN s.TagSet THEN s.TagSet[tagKey] ELSE emptyTag
    IN [v \in {valueOf(values[i]) : i \in 1..Len(values)} |->
           SelectSeq(values, LAMBDA s : valueOf(s) = v)]

\* the value of the first tag tagKey in the lists, << >> when there is none
RECURSIVE findFirstTagOccurrence(_, _)
findFirstTagOccurrence(tagKey, ddMetrics) ==
    IF ddMetrics = << >> THEN << >>
    ELSE LET tagged == SelectSeq(Head(ddMetrics), LAMBDA s : tagKey \in DOMAIN s.TagSet)
         IN IF tagged # << >> THEN <<tagged[1].TagSet[tagKey]>>
            ELSE findFirstTagOccurrence(tagKey, Tail(ddMetrics))

\* ddMetricsToMilliQuantity and ddMetricsToQuantity of a value in cores or
\* in bytes
ddMetricsToQuantityFuncs(resourceName, value) ==
    IF resourceName = ResourceCPU THEN value * 1000 ELSE value

\* the loop over the rows of the series of one container, from row j of
\* series i on: acc is [maxValue, valueIsSet]
RECURSIVE MaxOfRows(_, _, _, _)
MaxOfRows(ress, i, j, acc) ==
    IF i > Len(ress) THEN acc
    ELSE IF j > Len(ress[i].Pointlist) THEN MaxOfRows(ress, i + 1, 1, acc)
    ELSE LET row == ress[i].Pointlist[j]
         IN IF row.complete /\ row.value >= acc.maxValue
            THEN MaxOfRows(ress, i, j + 1, [maxValue |-> row.value, valueIsSet |-> TRUE])
            ELSE MaxOfRows(ress, i, j + 1, acc)

\* the PodMetrics of a pod without Timestamp and Window, << >> for nil;
\* order is the order of a range over metricsPerResource
createPodMetrics(namespace, podName, metricsPerResource, order) ==
    LET present == SelectSeq(order, LAMBDA r : r \in DOMAIN metricsPerResource)
        found == findFirstTagOccurrence("kube_namespace",
                     [i \in 1..Len(present) |-> metricsPerResource[present[i]]])
        perContainer(r) == classifyByTag(metricsPerResource[r], "container_name",
                                         "unknown-container")
        maxOf(r, c) == MaxOfRows(perContainer(r)[c], 1, 1,
                                 [maxValue |-> 0, valueIsSet |-> FALSE])
        isSet(r, c) == IF c \in DOMAIN perContainer(r) THEN maxOf(r, c).valueIsSet ELSE FALSE
        names == {c \in UNION {DOMAIN perContainer(r) : r \in DOMAIN metricsPerResource} :
                     \E r \in DOMAIN metricsPerResource : isSet(r, c)}
        containers == {[Name |-> c,
                        Usage |-> [r \in {x \in DOMAIN metricsPerResource : isSet(x, c)} |->
                                      ddMetricsToQuantityFuncs(r, maxOf(r, c).maxValue)]] :
                          c \in names}
    IN IF namespace = "" /\ found = << >> THEN << >>
       ELSE <<[Name |-> podName,
               Namespace |-> IF namespace = "" THEN found[1] ELSE namespace,
               Containers |-> containers]>>

\* the loop of List over podNames
RECURSIVE DatadogListPods(_, _, _, _, _)
DatadogListPods(d, podNames, podCpus, podMems, start) ==
    IF podNames = << >> THEN << >>
    ELSE LET podName == Head(podNames)
             metricsPerResource ==
                 [r \in {x \in ResourceNames :
                            podName \in DOMAIN (IF x = ResourceCPU THEN podCpus ELSE podMems)} |->
                     IF r = ResourceCPU THEN podCpus[podName] ELSE podMems[podName]]
             podMetrics == createPodMetrics(d.Namespace, podName, metricsPerResource, d.order)
             rest == DatadogListPods(d, Tail(podNames), podCpus, podMems, start)
         IN IF podMetrics = << >> THEN rest
            ELSE <<[Name |-> podMetrics[1].Name, Namespace |-> podMetrics[1].Namespace,
                    Timestamp |-> start, Window |-> d.QueryInterval,
                    Containers |-> podMetrics[1].Containers]>> \o rest

\* ddclientPodMetrics.List
DatadogList(d) ==
    LET end == d.now - timeShift
        start == end - d.QueryInterval
        podCpus == classifyByTag(d.cpuResp.Series, "pod_name", "unknown-pod")
        podMems == classifyByTag(d.memResp.Series, "pod_name", "unknown-pod")
    IN IF d.cpuResp.err \/ d.memResp.err THEN ListFailed
       ELSE ListReturned(DatadogListPods(d, RangeOver(DOMAIN podCpus \cup DOMAIN podMems),
                                         podCpus, podMems, start))

(***************************************************************************)
(* The List calls.  The upstream of the external-metrics source answers,   *)
(* per resource, with an error or with samples that carry all, some or     *)
(* none of the three labels, a timestamp or none and a window or none;     *)
(* the Datadog API answers with an error or with series.                   *)
(***************************************************************************)
SampleTime == 1000

\* the labels of a sample of container c1 of a pod
FullLabels(podName) == [k \in {PodNamespaceLabel, PodNameLabel, CtrNameLabel} |-> IF k = PodNamespaceLabel THEN "ns" ELSE IF k = PodNameLabel THEN podName ELSE "c1"]

\* the same without the label k
LabelsWithout(k) == [x \in {PodNamespaceLabel, PodNameLabel, CtrNameLabel} \ {k} |-> FullLabels("p1")[x]]

SourceLabelLists ==
    {<< >>, <<LabelsWithout(PodNamespaceLabel)>>, <<LabelsWithout(PodNameLabel)>>,
     <<LabelsWithout(CtrNameLabel)>>, <<FullLabels("p1")>>,
     <<LabelsWithout(CtrNameLabel), FullLabels("p1")>>,
     <<FullLabels("p1"), FullLabels("p2")>>}

\* what nsClient.List answers
ExternalAnswers ==
    {[err |-> TRUE, Items |-> << >>]}
    \cup {[err |-> FALSE,
           Items |-> [i \in 1..Len(labels) |->
                         [MetricLabels |-> labels[i], Timestamp |-> t,
                          WindowSeconds |-> w, Value |-> 5]]] :
             labels \in SourceLabelLists, t \in {0, SampleTime}, w \in {<< >>, <<60>>}}

ExternalUpstreams ==
    {[kind |-> "external", namespace |-> namespace, order |-> order,
      Vpas |-> <<[PodCount |-> podCount, Namespace |-> "ns", answers |-> answers]>>] :
        namespace \in {"", "other"}, order \in ObservationOrders(ResourceNames),
        podCount \in {0, 1}, answers \in [ResourceNames -> ExternalAnswers]}

\* a series of a container of a pod, with the tags in keys
DatadogSeries(keys, podName, pointlist) == [TagSet |-> [k \in keys |-> IF k = "pod_name" THEN podName ELSE IF k = "kube_namespace" THEN "ns" ELSE "c1"], Pointlist |-> pointlist]

DatadogTagKeys == {"pod_name", "kube_namespace", "container_name"}

DatadogPointlists ==
    {<<[complete |-> FALSE, value |-> 0]>>,
     <<[complete |-> TRUE, value |-> 2], [complete |-> TRUE, value |-> 5]>>}

\* what QueryMetrics answers
DatadogResponses ==
    {[err |-> TRUE, Series |-> << >>], [err |-> FALSE, Series |-> << >>]}
    \cup {[err |-> FALSE, Series |-> <<DatadogSeries(DatadogTagKeys \ missing, "p1", pointlist)>>] :
             missing \in {{}, {"pod_name"}, {"kube_namespace"}, {"container_name"}},
             pointlist \in DatadogPointlists}
    \cup {[err |-> FALSE,
           Series |-> <<DatadogSeries(DatadogTagKeys, "p1", pointlist),
                        DatadogSeries(DatadogTagKeys, "p2", pointlist)>>] :
             pointlist \in DatadogPointlists}

\* the query intervals the flag can give
QueryIntervals == {-60, 0, 60}

DatadogUpstreams ==
    {[kind |-> "datadog", Namespace |-> namespace, QueryInterval |-> queryInterval,
      now |-> SampleTime, order |-> <<ResourceCPU, ResourceMemory>>,
      cpuResp |-> cpuResp, memResp |-> memResp] :
        namespace \in {"", "ns"}, queryInterval \in QueryIntervals,
        cpuResp \in DatadogResponses, memResp \in DatadogResponses}

InitSources ==
    /\ InitNoLoop
    /\ InitNoFilter
    /\ upstream \in ExternalUpstreams \cup DatadogUpstreams
    /\ listed = EmptyMap

\* List is called on the external-metrics source
CallExternalList ==
    /\ listed = EmptyMap
    /\ upstream.kind = "external"
    /\ listed' = ExternalList(upstream.namespace, upstream.Vpas, upstream.order, 1, << >>)
    /\ UNCHANGED <<upstream, postVars, filterVars, nonPostVars>>

\* List is called on the Datadog source
CallDatadogList ==
    /\ listed = EmptyMap
    /\ upstream.kind = "datadog"
    /\ listed' = DatadogList(upstream)
    /\ UNCHANGED <<upstream, postVars, filterVars, nonPostVars>>

NextSources == CallExternalList \/ CallDatadogList

SpecSources == InitSources /\ [][NextSources]_vars

(***************************************************************************)
(* Properties of the metrics sources.                                      *)
(***************************************************************************)
ExternalListCalled == listed # EmptyMap /\ upstream.kind = "external"

\* the samples of the VPA that carry all three labels: [id, resource, Value]
LabelledSamples ==
    UNION {{[id |-> containerId(upstream.Vpas[1].answers[r].Items[i])[1], resource |-> r,
             Value |-> upstream.Vpas[1].answers[r].Items[i].Value] :
               i \in {j \in 1..Len(upstream.Vpas[1].answers[r].Items) :
                         containerId(upstream.Vpas[1].answers[r].Items[j]) # << >>}} :
              r \in ResourceNames}

\* the samples of a list: [id, resource, Value]
ListedSamples(items) ==
    UNION {UNION {{[id |-> [PodID |-> [Namespace |-> items[k].Namespace,
                                       PodName |-> items[k].Name],
                            ContainerName |-> items[k].Containers[j].Name],
                    resource |-> r, Value |-> items[k].Containers[j].Usage[r]] :
                      r \in DOMAIN items[k].Containers[j].Usage} :
                  j \in 1..Len(items[k].Containers)} : k \in 1..Len(items)}

\* the queries of the VPA were made and all answered
AllAnswered ==
    /\ upstream.Vpas[1].PodCount > 0
    /\ upstream.namespace = ""
    /\ \A r \in ResourceNames : ~upstream.Vpas[1].answers[r].err

\* C23: the list the external-metrics source returns holds exactly the
\* samples that carry the three label keys: a sample missing one of them is
\* dropped and List does not fail for it, and every sample carrying all
\* three is in the result under its pod, container and resource.
C23_ExactlyLabelledSamplesListed ==
    (ExternalListCalled /\ AllAnswered) =>
        /\ ~listed.panicked
        /\ ~listed.err
        /\ ListedSamples(listed.Items) = LabelledSamples

\* a sample missing a label is dropped and List returns
C23_DropsUnlabelled ==
    (ExternalListCalled /\ AllAnswered /\ LabelledSamples = {}) =>
        /\ ~listed.panicked
        /\ ~listed.err
        /\ listed.Items = << >>

\* a List call returned a list
ListCalledAndReturned ==
    IF listed = EmptyMap THEN FALSE ELSE ~listed.panicked /\ ~listed.err

\* the PodMetrics of one pod in a list agree on Timestamp and Window
OneTimePerPod(items) ==
    \A k, l \in 1..Len(items) :
        (items[k].Name = items[l].Name /\ items[k].Namespace = items[l].Namespace) =>
            /\ items[k].Timestamp = items[l].Timestamp
            /\ items[k].Window = items[l].Window

\* C24: in every list a metrics source returns, the samples of one pod carry
\* the same Timestamp and Window and the Window is strictly positive, also
\* when the upstream reports no window or a zero timestamp and when the
\* configured query interval is not positive.
C24_OneTimeAndPositiveWindow ==
    ListCalledAndReturned =>
        /\ OneTimePerPod(listed.Items)
        /\ \A k \in 1..Len(listed.Items) : listed.Items[k].Window > 0

\* the part of C24 that holds: one Timestamp and one Window per pod
C24_OneTimePerPod == ListCalledAndReturned => OneTimePerPod(listed.Items)

\* the Datadog source returns a window that is the query interval
C24_DatadogWindowIsQueryInterval ==
    (ListCalledAndReturned /\ upstream.kind = "datadog") =>
        \A k \in 1..Len(listed.Items) : listed.Items[k].Window = upstream.QueryInterval

(***************************************************************************)
(* The long-pending filter of the cluster autoscaler.  A pod is [UID,      *)
(* Owner], Owner being the UID of its controller; times are in hours.      *)
(* Each Process call is recorded in filterCalls as [time, pending,         *)
(* allowed].                                                               *)
(***************************************************************************)
maxDistinctWorkloadsHavingPendingPods == 30
longPendingCutoff == 2
MaxFilterTime == 5
MaxFilterCalls == 4

countDistinctOwnerReferences(pods) == Cardinality({pods[i].Owner : i \in 1..Len(pods)})

\* the first loop of Process from the i-th pending pod on: r is [seen, allowed]
RECURSIVE ProcessPending(_, _, _, _, _)
ProcessPending(pending, i, r, t, longPendingBackoff) ==
    IF i > Len(pending) THEN r
    ELSE LET uid == pending[i].UID
             tracked == IF uid \in DOMAIN r.seen THEN r.seen
                        ELSE MapSet(r.seen, uid, [firstSeen |-> t, lastTried |-> t])
             deadline == tracked[uid].lastTried + longPendingBackoff
         IN IF tracked[uid].firstSeen + longPendingCutoff < t /\ deadline > t
            THEN ProcessPending(pending, i + 1, [r EXCEPT !.seen = tracked],
                                t, longPendingBackoff)
            ELSE ProcessPending(pending, i + 1,
                     [seen |-> [tracked EXCEPT ![uid].lastTried = t],
                      allowed |-> Append(r.allowed, pending[i])],
                     t, longPendingBackoff)

\* the filter that lets a long-pending pod through whatever its deadline
ProcessWithoutBackoff(p, pending, t, delay) ==
    LET r == ProcessPending(pending, 1, [seen |-> p, allowed |-> << >>], t, 0)
        currentPods == {pending[i].UID : i \in 1..Len(pending)}
    IN IF countDistinctOwnerReferences(pending) > maxDistinctWorkloadsHavingPendingPods
       THEN [seen |-> p, allowed |-> pending]
       ELSE [seen |-> [uid \in DOMAIN r.seen \cap currentPods |-> r.seen[uid]],
             allowed |-> r.allowed]

\* filterOutLongPending.Process at time t on the tracker p: [seen, allowed]
FilterProcess(p, pending, t, delay) ==
    LET longPendingBackoff == delay * 2
        r == ProcessPending(pending, 1, [seen |-> p, allowed |-> << >>], t, longPendingBackoff)
        currentPods == {pending[i].UID : i \in 1..Len(pending)}
    IN IF countDistinctOwnerReferences(pending) > maxDistinctWorkloadsHavingPendingPods
       THEN [seen |-> p, allowed |-> pending]
       ELSE [seen |-> [uid \in DOMAIN r.seen \cap currentPods |-> r.seen[uid]],
             allowed |-> r.allowed]

\* two pods of two workloads, and pods of more workloads than the filter
\* backs off for
PodA == [UID |-> 101, Owner |-> 201]
PodB == [UID |-> 102, Owner |-> 202]
LargeSet == [i \in 1..(maxDistinctWorkloadsHavingPendingPods + 1) |-> [UID |-> i, Owner |-> i]]

PendingLists == {<< >>, <<PodA>>, <<PodA, PodB>>, LargeSet}

\* NewFilterOutLongPending
InitFilter ==
    /\ InitNoLoop
    /\ InitNoSource
    /\ seen = EmptyMap
    /\ filterNow = 0
    /\ filterCalls = << >>
    /\ scaleDownDelayAfterAdd \in {0, 1}

\* Process is called on a list of pending pods
CallFilterProcess ==
    /\ Len(filterCalls) < MaxFilterCalls
    /\ \E pending \in PendingLists :
           LET r == FilterProcess(seen, pending, filterNow, scaleDownDelayAfterAdd)
           IN /\ seen' = r.seen
              /\ filterCalls' = Append(filterCalls, [time |-> filterNow, pending |-> pending,
                                                     allowed |-> r.allowed])
    /\ UNCHANGED <<filterNow, scaleDownDelayAfterAdd, postVars, sourceVars, nonPostVars>>

FilterTimePasses ==
    /\ filterNow < MaxFilterTime
    /\ filterNow' = filterNow + 1
    /\ UNCHANGED <<seen, filterCalls, scaleDownDelayAfterAdd, postVars, sourceVars, nonPostVars>>

NextFilter == CallFilterProcess \/ FilterTimePasses

SpecFilter == InitFilter /\ [][NextFilter]_vars

(***************************************************************************)
(* Properties of the long-pending filter, stated on the record of calls.   *)
(***************************************************************************)
UIDsOf(pods) == {pods[i].UID : i \in 1..Len(pods)}

\* no call so far had pending pods of more than 30 workloads
FewWorkloads ==
    \A i \in 1..Len(filterCalls) :
        countDistinctOwnerReferences(filterCalls[i].pending)
            <= maxDistinctWorkloadsHavingPendingPods

\* the call since which the pod uid has been pending in every call up to
\* the last one
PendingSince(uid) ==
    CHOOSE k \in 1..Len(filterCalls) :
        /\ \A i \in k..Len(filterCalls) : uid \in UIDsOf(filterCalls[i].pending)
        /\ k > 1 => uid \notin UIDsOf(filterCalls[k - 1].pending)

\* the last call before the last one that let the pod uid through
LastLetThrough(uid) ==
    CHOOSE l \in PendingSince(uid)..(Len(filterCalls) - 1) :
        /\ uid \in UIDsOf(filterCalls[l].allowed)
        /\ \A i \in (l + 1)..(Len(filterCalls) - 1) : uid \notin UIDsOf(filterCalls[i].allowed)

\* the pod uid is long pending at the last call
LongPending(uid) ==
    filterCalls[Len(filterCalls)].time - filterCalls[PendingSince(uid)].time > longPendingCutoff

\* C25: while the pending pods belong to at most 30 workloads, a pod first
\* seen pending more than 2 hours ago is let through at most once per
\* backoff period of 2 x ScaleDownDelayAfterAdd and is let through again by
\* the first call made once that period has passed since it was last let
\* through; a pod seen pending for 2 hours or less is never filtered out.
C25_LongPendingRetriedPerBackoff ==
    (filterCalls # << >> /\ FewWorkloads) =>
        \A uid \in UIDsOf(filterCalls[Len(filterCalls)].pending) :
            IF LongPending(uid)
            THEN uid \in UIDsOf(filterCalls[Len(filterCalls)].allowed)
                 <=> filterCalls[Len(filterCalls)].time - filterCalls[LastLetThrough(uid)].time
                        >= 2 * scaleDownDelayAfterAdd
            ELSE uid \in UIDsOf(filterCalls[Len(filterCalls)].allowed)

\* PodA is seen at 0, let through at 3 when it is long pending, filtered
\* out at 4 and let through again at 5, the backoff being 2 hours
C25_Witness ==
    /\ scaleDownDelayAfterAdd = 1
    /\ Len(filterCalls) = 4
    /\ \A i \in 1..4 : PodA.UID \in UIDsOf(filterCalls[i].pending)
    /\ filterCalls[1].time = 0
    /\ filterCalls[2].time = 3 /\ PodA.UID \in UIDsOf(filterCalls[2].allowed)
    /\ filterCalls[3].time = 4 /\ PodA.UID \notin UIDsOf(filterCalls[3].allowed)
    /\ filterCalls[4].time = 5 /\ PodA.UID \in UIDsOf(filterCalls[4].allowed)

\* C30: after any sequence of Process calls the tracker holds entries only
\* for pods of the pending list of the most recent call, also when that
\* call returned the list unfiltered because of the many workloads.
C30_TrackerHoldsCurrentPodsOnly ==
    filterCalls # << >> => DOMAIN seen \subseteq UIDsOf(filterCalls[Len(filterCalls)].pending)

\* the tracker holds entries only for pods of the most recent call that had
\* pending pods of at most 30 workloads
C30_TrackerHoldsLastFilteredList ==
    \A i \in 1..Len(filterCalls) :
        (/\ countDistinctOwnerReferences(filterCalls[i].pending)
                <= maxDistinctWorkloadsHavingPendingPods
         /\ \A j \in (i + 1)..Len(filterCalls) :
                countDistinctOwnerReferences(filterCalls[j].pending)
                    > maxDistinctWorkloadsHavingPendingPods)
        => DOMAIN seen = UIDsOf(filterCalls[i].pending)

(***************************************************************************)
(* Properties of the state across UpdateVPAs and LoadVPAs.                 *)
(***************************************************************************)
\* per VPA and container, the RawRecommendation the state holds
RawRecommendations(ext) ==
    [id \in DOMAIN ext |->
        [c \in DOMAIN ext[id].Containers |-> ext[id].Containers[c].RawRecommendation]]

\* C26: computing recommendations does not modify the stored raw
\* recommendations: after UpdateVPAs every container's RawRecommendation in
\* the ExternalRecommendationsState is what it was before UpdateVPAs.
C26_UpdateVPAsKeepsRaw ==
    [][RawRecommendations(extVpas)' = RawRecommendations(extVpas)]_vars

\* C27: AddOrUpdateVpa called for a VPA that is in the state with the same
\* creation time keeps the VPA's container recommendations and their
\* timestamps.
C27_AddOrUpdateVpaKeepsContainers ==
    [][(/\ lastCall'.op = "AddOrUpdateVpa"
        /\ lastCall'.id \in DOMAIN extVpas
        /\ extVpas'[lastCall'.id].Created = extVpas[lastCall'.id].Created)
       => extVpas'[lastCall'.id].Containers = extVpas[lastCall'.id].Containers]_vars

\* the names of the containers of a list of container recommendations
ContainersOf(list) == {list[i].ContainerName : i \in 1..Len(list)}

\* C28: the replica-restrictions guard and the resource-ratio enforcer
\* preserve the set of containers: every container of the input
\* recommendation is in the output, also one that the pod template of the
\* workload does not have.
C28_ContainersPreserved ==
    (Called(ReplicaRestrictionsPostProcessor)
     \/ Called(ResourceRatioRecommendationPostProcessor)) =>
        ContainersOf(PostInput) \subseteq ContainersOf(PostOutput)

\* the containers of the pod template are preserved
C28_TemplateContainersPreserved ==
    (Called(ReplicaRestrictionsPostProcessor)
     \/ Called(ResourceRatioRecommendationPostProcessor)) =>
        /\ ContainersOf(PostInput) \cap DOMAIN postVpa.Requests \subseteq ContainersOf(PostOutput)
        /\ ContainersOf(PostOutput) \subseteq ContainersOf(PostInput)

\* the number of times a post-processor is in the chain of the recommender
TimesInChain(postProcessor) ==
    Cardinality({i \in 1..Len(postProcessors) : postProcessors[i] = postProcessor})

\* C29: each enable flag installs exactly the processor it names: the
\* maintain-resource-ratio flag the resource-ratio enforcer, the
\* replica-restrictions flag the replica-restrictions guard; no processor
\* is in the chain more than once or without its own flag.
C29_EachFlagInstallsItsProcessor ==
    /\ TimesInChain(ResourceRatioRecommendationPostProcessor)
           = IF flags.postProcessorMaintainResourceRatio THEN 1 ELSE 0
    /\ TimesInChain(ReplicaRestrictionsPostProcessor)
           = IF flags.postProcessorReplicaRestrictions THEN 1 ELSE 0
    /\ TimesInChain(IntegerCPUPostProcessor)
           = IF flags.postProcessorCPUasInteger THEN 1 ELSE 0
    /\ TimesInChain(CappingPostProcessor) = 1

\* the flags for CPU as integer and for the replica restrictions do as they say
C29_OtherFlagsInstallTheirs ==
    /\ TimesInChain(IntegerCPUPostProcessor)
           = IF flags.postProcessorCPUasInteger THEN 1 ELSE 0
    /\ flags.postProcessorReplicaRestrictions
           => TimesInChain(ReplicaRestrictionsPostProcessor) >= 1
    /\ TimesInChain(ResourceRatioRecommendationPostProcessor) = 0
====
